---- MODULE Spec2Model ----
(***************************************************************************)
(* A model of the view components of the AI Team Orchestrator frontend:    *)
(* the recursive SmartValueRenderer and the SmartAssetViewer around it,    *)
(* the KnowledgeInsightsArtifact panel with its section and management     *)
(* state, and the display helpers formatDate and getConfidenceColor.       *)
(*                                                                         *)
(* JavaScript strings are sequences of one-character strings, so that      *)
(* length, substring and escaping are computed and not assumed.            *)
(***************************************************************************)
EXTENDS Integers, Sequences, FiniteSets, TLC

VARIABLES
    value,          \* SmartValueRenderer: the `value` prop
    out,            \* SmartValueRenderer: the tree it returned, NotRendered before
    asset,          \* SmartAssetViewer: the `asset` prop
    supplied,       \* SmartAssetViewer / panel: the optional callbacks the caller passed
    activeView,     \* SmartAssetViewer: useState 'visual' | 'data' | 'usage'
    activeSection,  \* KnowledgeInsightsArtifact: useState of the section
    managementMode, \* KnowledgeInsightsArtifact: useState(false)
    calls,          \* the callbacks invoked so far, in order
    dateString,     \* formatDate: its argument
    confidence,     \* getConfidenceColor: its argument, in units of 1/Scale
    label,          \* what formatDate / getConfidenceColor returned
    knowledgeData,  \* KnowledgeInsightsArtifact: the `knowledgeData` prop
    agents,         \* ProjectTeamSection: the `agents` prop, an array
    team,           \* ProjectTeamSection: what it rendered, NotRendered before
    tag,            \* the style helpers: their argument
    style,          \* what the style helpers returned
    freeText,       \* the label humanizers: their argument
    humanized       \* what the label humanizers returned

vars == <<value, out, asset, supplied, activeView, activeSection,
          managementMode, calls, dateString, confidence, label,
          knowledgeData, agents, team, tag, style, freeText, humanized>>

(***************************************************************************)
(* Bounds of the model.                                                    *)
(***************************************************************************)
MaxStrOver == 2     \* string lengths go up to 200 + MaxStrOver
MaxListLen == 7     \* lists have 0..MaxListLen items
MaxObjLen == 5      \* mappings have 0..MaxObjLen entries
MaxOff == 1         \* rotations of the pool a list or mapping is filled from
MaxCalls == 1       \* callback invocations that are recorded

Min(a, b) == IF a < b THEN a ELSE b

(***************************************************************************)
(* JavaScript values.                                                      *)
(***************************************************************************)
JNull == [kind |-> "null"]
JUndefined == [kind |-> "undefined"]
JString(s) == [kind |-> "string", str |-> s]
JNumber(n) == [kind |-> "number", num |-> n]
JBoolean(b) == [kind |-> "boolean", bool |-> b]
JArray(items) == [kind |-> "array", items |-> items]
JObject(entries) == [kind |-> "object", entries |-> entries]
JSymbol(desc) == [kind |-> "symbol", str |-> desc]
JBigInt(n) == [kind |-> "bigint", num |-> n]
JFunction(src) == [kind |-> "function", str |-> src]

\* typeof: null and arrays are objects
TypeOf(v) ==
    CASE v.kind = "null" -> "object"
      [] v.kind = "array" -> "object"
      [] OTHER -> v.kind

ArrayIsArray(v) == v.kind = "array"

\* Array.prototype.slice(start, end) and String.prototype.substring(start, end)
Slice(seq, start, end) == SubSeq(seq, start + 1, Min(end, Len(seq)))

Digits == <<"0", "1", "2", "3", "4", "5", "6", "7", "8", "9">>

IsDigitChar(c) == \E i \in 1..Len(Digits) : Digits[i] = c

DigitOf(c) == (CHOOSE i \in 1..Len(Digits) : Digits[i] = c) - 1

RECURSIVE NatToString(_)
NatToString(n) ==
    IF n < 10 THEN <<Digits[n + 1]>>
    ELSE NatToString(n \div 10) \o <<Digits[(n % 10) + 1]>>

NumberToString(n) == IF n < 0 THEN <<"-">> \o NatToString(-n) ELSE NatToString(n)

\* Object.entries(v): own enumerable [key, value] pairs in enumeration order;
\* a TypeError on null and undefined; the index/item pairs of an array; the
\* index/character pairs of a string; nothing for the other primitives.
ObjectEntries(v) ==
    CASE v.kind \in {"null", "undefined"} -> [threw |-> TRUE, entries |-> <<>>]
      [] v.kind = "object" -> [threw |-> FALSE, entries |-> v.entries]
      [] v.kind = "array" ->
            [threw |-> FALSE,
             entries |-> [i \in 1..Len(v.items) |->
                             [key |-> NatToString(i - 1), val |-> v.items[i]]]]
      [] v.kind = "string" ->
            [threw |-> FALSE,
             entries |-> [i \in 1..Len(v.str) |->
                             [key |-> NatToString(i - 1),
                              val |-> [kind |-> "string", str |-> <<v.str[i]>>]]]]
      [] OTHER -> [threw |-> FALSE, entries |-> <<>>]

\* String(value): the default string conversion
RECURSIVE StringOf(_)
JoinItems(items) ==
    LET RECURSIVE Join(_)
        Join(i) ==
            IF i > Len(items) THEN <<>>
            ELSE (IF i > 1 THEN <<",">> ELSE <<>>)
                 \o (IF items[i].kind \in {"null", "undefined"} THEN <<>>
                     ELSE StringOf(items[i]))
                 \o Join(i + 1)
    IN Join(1)

StringOf(v) ==
    CASE v.kind = "number" -> NumberToString(v.num)
      [] v.kind = "bigint" -> NumberToString(v.num)
      [] v.kind = "boolean" ->
            IF v.bool THEN <<"t", "r", "u", "e">> ELSE <<"f", "a", "l", "s", "e">>
      [] v.kind = "symbol" ->
            <<"S", "y", "m", "b", "o", "l", "(">> \o v.str \o <<")">>
      [] v.kind = "function" -> v.str
      [] v.kind = "string" -> v.str
      [] v.kind = "null" -> <<"n", "u", "l", "l">>
      [] v.kind = "undefined" -> <<"u", "n", "d", "e", "f", "i", "n", "e", "d">>
      [] v.kind = "array" -> JoinItems(v.items)
      [] OTHER -> <<"[", "o", "b", "j", "e", "c", "t", " ", "O", "b", "j", "e", "c", "t", "]">>

(***************************************************************************)
(* Key labels: key.replace(/_/g, ' ').replace(/\b\w/g, l => l.toUpperCase()) *)
(***************************************************************************)
LowerCase == <<"a", "b", "c", "d", "e", "f", "g", "h", "i", "j", "k", "l", "m",
               "n", "o", "p", "q", "r", "s", "t", "u", "v", "w", "x", "y", "z">>
UpperCase == <<"A", "B", "C", "D", "E", "F", "G", "H", "I", "J", "K", "L", "M",
               "N", "O", "P", "Q", "R", "S", "T", "U", "V", "W", "X", "Y", "Z">>

Range(seq) == {seq[i] : i \in 1..Len(seq)}

\* \w
IsWordChar(c) == c \in Range(LowerCase) \cup Range(UpperCase) \cup Range(Digits) \cup {"_"}

ToUpperCase(c) ==
    IF c \in Range(LowerCase)
    THEN UpperCase[CHOOSE i \in 1..Len(LowerCase) : LowerCase[i] = c]
    ELSE c

\* s.replace(/c/g, d) for one-character c and d
ReplaceAll(s, c, d) == [i \in 1..Len(s) |-> IF s[i] = c THEN d ELSE s[i]]

\* s.replace(/\b\w/g, l => l.toUpperCase())
CapitalizeWords(s) ==
    [i \in 1..Len(s) |->
        IF IsWordChar(s[i]) /\ (i = 1 \/ ~IsWordChar(s[i - 1]))
        THEN ToUpperCase(s[i])
        ELSE s[i]]

\* a label that capitalizes the first word only
KeyLabel_FirstWordOnly(key) ==
    [i \in 1..Len(key) |->
        IF key[i] = "_" THEN " " ELSE IF i = 1 THEN ToUpperCase(key[i]) ELSE key[i]]

\* lines 57 and 245
KeyLabel(key) == CapitalizeWords(ReplaceAll(key, "_", " "))

(***************************************************************************)
(* SmartValueRenderer.  The tree it returns is a record: a marker, a text, *)
(* a truncated text, a list or a mapping; Thrown stands for an exception   *)
(* raised while rendering.                                                 *)
(***************************************************************************)
NotRendered == [node |-> "none"]
Thrown == [node |-> "thrown"]
Marker(m) == [node |-> "marker", marker |-> m]
Text(cls, t) == [node |-> "text", cls |-> cls, text |-> t]
Ellipsis == <<".", ".", ".">>

\* a renderer that tests for undefined only
IsAbsent_NoNullCheck(v) == v = JUndefined

\* line 189
IsAbsent(v) == v = JNull \/ v = JUndefined

\* a string branch that truncates from length 200 on
RenderString_CapExclusive(s) ==
    IF Len(s) >= 200
    THEN [node |-> "truncated",
          text |-> Slice(s, 0, 200) \o Ellipsis,
          total |-> Len(s)]
    ELSE [node |-> "text", cls |-> "plain", text |-> s]

\* lines 193-203: the string branch
RenderString(s) ==
    IF Len(s) > 200
    THEN [node |-> "truncated",
          text |-> Slice(s, 0, 200) \o Ellipsis,
          total |-> Len(s)]
    ELSE Text("plain", s)

\* a list branch that renders every item
ShownItems_All(items) == items

\* line 218: value.slice(0, 5)
ShownItems(items) == Slice(items, 0, 5)

\* a marker that counts from the list's length instead of the hidden items
MoreItems_OffByOne(items) == IF Len(items) > 5 THEN <<Len(items) - 4>> ELSE <<>>

\* lines 224-228: the "+ N more items" marker, <<>> when it is not rendered
MoreItems(items) == IF Len(items) > 5 THEN <<Len(items) - 5>> ELSE <<>>

\* a mapping branch that applies the list cap
ShownEntries_ListCap(entries) == Slice(entries, 0, 5)

\* line 242: entries.slice(0, 3)
ShownEntries(entries) == Slice(entries, 0, 3)

\* lines 252-256: the "+ N more properties" marker
MoreProperties(entries) == IF Len(entries) > 3 THEN <<Len(entries) - 3>> ELSE <<>>

RECURSIVE SmartValueRenderer(_)

\* lines 209-232: the list branch
RenderArray(items) ==
    IF Len(items) = 0
    THEN Marker("Empty list")
    ELSE [node |-> "list",
          count |-> Len(items),
          items |-> [index \in 1..Len(ShownItems(items)) |->
                        [pos |-> (index - 1) + 1,
                         child |-> SmartValueRenderer(ShownItems(items)[index])]],
          more |-> MoreItems(items)]

\* lines 234-259: the mapping branch
RenderObject(v) ==
    LET got == ObjectEntries(v)
        entries == got.entries
    IN  IF got.threw THEN Thrown
        ELSE IF Len(entries) = 0
        THEN Marker("Empty object")
        ELSE [node |-> "object",
              props |-> [i \in 1..Len(ShownEntries(entries)) |->
                            [key |-> KeyLabel(ShownEntries(entries)[i].key),
                             child |-> SmartValueRenderer(ShownEntries(entries)[i].val)]],
              more |-> MoreProperties(entries)]

SmartValueRenderer(v) ==
    IF IsAbsent(v) THEN Marker("null")
    ELSE IF TypeOf(v) = "string" THEN RenderString(v.str)
    ELSE IF TypeOf(v) = "number" \/ TypeOf(v) = "boolean" THEN Text("medium", StringOf(v))
    ELSE IF ArrayIsArray(v) THEN RenderArray(v.items)
    ELSE IF TypeOf(v) = "object" THEN RenderObject(v)
    ELSE Text("plain", StringOf(v))

\* whether rendering the tree raised an exception anywhere in it
RECURSIVE Throws(_)
Throws(n) ==
    CASE n.node = "thrown" -> TRUE
      [] n.node = "list" -> \E i \in 1..Len(n.items) : Throws(n.items[i].child)
      [] n.node = "object" -> \E i \in 1..Len(n.props) : Throws(n.props[i].child)
      [] OTHER -> FALSE

(***************************************************************************)
(* JSON.stringify(value, null, 2), character by character.                 *)
(***************************************************************************)
Quote == "\""
Backslash == "\\"
Newline == "\n"

\* the quoted form of a string: quotes and backslashes escaped
QuoteJSON(s) ==
    LET RECURSIVE Esc(_, _)
        Esc(lo, hi) ==
            IF lo > hi THEN <<>>
            ELSE IF lo = hi
            THEN (IF s[lo] = Quote \/ s[lo] = Backslash THEN <<Backslash, s[lo]>> ELSE <<s[lo]>>)
            ELSE Esc(lo, (lo + hi) \div 2) \o Esc(((lo + hi) \div 2) + 1, hi)
    IN  <<Quote>> \o Esc(1, Len(s)) \o <<Quote>>

Spaces(n) == [i \in 1..n |-> " "]

\* the values JSON has no text for
Unserializable(v) == v.kind \in {"undefined", "function", "symbol"}

\* the text of v at indentation ind; called for serializable values only
RECURSIVE SerializeJSON(_, _)
SerializeJSON(v, ind) ==
    CASE v.kind = "null" -> <<"n", "u", "l", "l">>
      [] v.kind = "boolean" -> StringOf(v)
      [] v.kind = "number" -> NumberToString(v.num)
      [] v.kind = "string" -> QuoteJSON(v.str)
      [] v.kind = "array" ->
            IF Len(v.items) = 0 THEN <<"[", "]">>
            ELSE LET RECURSIVE Items(_)
                     Items(i) ==
                         IF i > Len(v.items) THEN <<>>
                         ELSE (IF i > 1 THEN <<",">> ELSE <<>>)
                              \o <<Newline>> \o Spaces(ind + 2)
                              \o (IF Unserializable(v.items[i])
                                  THEN <<"n", "u", "l", "l">>
                                  ELSE SerializeJSON(v.items[i], ind + 2))
                              \o Items(i + 1)
                 IN  <<"[">> \o Items(1) \o <<Newline>> \o Spaces(ind) \o <<"]">>
      [] v.kind = "object" ->
            LET kept == SelectSeq(v.entries, LAMBDA en : ~Unserializable(en.val))
                RECURSIVE Members(_)
                Members(i) ==
                    IF i > Len(kept) THEN <<>>
                    ELSE (IF i > 1 THEN <<",">> ELSE <<>>)
                         \o <<Newline>> \o Spaces(ind + 2)
                         \o QuoteJSON(kept[i].key) \o <<":", " ">>
                         \o SerializeJSON(kept[i].val, ind + 2)
                         \o Members(i + 1)
            IN  IF Len(kept) = 0 THEN <<"{", "}">>
                ELSE <<"{">> \o Members(1) \o <<Newline>> \o Spaces(ind) \o <<"}">>
      [] OTHER -> <<>>

\* whether a bigint is among the values to serialize
RECURSIVE HasBigInt(_)
HasBigInt(v) ==
    CASE v.kind = "bigint" -> TRUE
      [] v.kind = "array" -> \E i \in 1..Len(v.items) : HasBigInt(v.items[i])
      [] v.kind = "object" -> \E i \in 1..Len(v.entries) : HasBigInt(v.entries[i].val)
      [] OTHER -> FALSE

\* JSON.stringify(v, null, 2): a text, undefined, or a TypeError (bigint)
JSONStringify(v) ==
    IF Unserializable(v) THEN [kind |-> "undefined"]
    ELSE IF HasBigInt(v) THEN [kind |-> "thrown"]
    ELSE [kind |-> "text", text |-> SerializeJSON(v, 0)]

(***************************************************************************)
(* Reading a JSON text back, to compare what a text holds with a value.    *)
(***************************************************************************)
ParseFail == [ok |-> FALSE]
Parsed(v, i) == [ok |-> TRUE, val |-> v, next |-> i]

RECURSIVE SkipSpace(_, _)
SkipSpace(s, i) ==
    IF i <= Len(s) /\ s[i] \in {" ", Newline} THEN SkipSpace(s, i + 1) ELSE i

\* Reading the characters s[lo..hi] of a string literal, entered after a
\* backslash (escaped) or not: the characters read, whether the closing quote
\* was met and where, and whether the last character read was a backslash.
RECURSIVE ScanChars(_, _, _, _)
ScanChars(s, lo, hi, escaped) ==
    IF lo > hi
    THEN [ok |-> TRUE, closed |-> FALSE, at |-> 0, acc |-> <<>>, escaped |-> escaped]
    ELSE IF lo = hi
    THEN IF escaped
         THEN [ok |-> s[lo] \in {Quote, Backslash}, closed |-> FALSE, at |-> 0,
               acc |-> <<s[lo]>>, escaped |-> FALSE]
         ELSE IF s[lo] = Quote
         THEN [ok |-> TRUE, closed |-> TRUE, at |-> lo, acc |-> <<>>, escaped |-> FALSE]
         ELSE IF s[lo] = Backslash
         THEN [ok |-> TRUE, closed |-> FALSE, at |-> 0, acc |-> <<>>, escaped |-> TRUE]
         ELSE [ok |-> TRUE, closed |-> FALSE, at |-> 0, acc |-> <<s[lo]>>, escaped |-> FALSE]
    ELSE LET mid == (lo + hi) \div 2
             left == ScanChars(s, lo, mid, escaped)
         IN  IF ~left.ok \/ left.closed THEN left
             ELSE LET right == ScanChars(s, mid + 1, hi, left.escaped)
                  IN  [right EXCEPT !.acc = left.acc \o right.acc]

\* the characters of a string literal from i on, up to its closing quote
ParseChars(s, i) ==
    LET r == ScanChars(s, i, Len(s), FALSE)
    IN  IF r.ok /\ r.closed THEN Parsed(r.acc, r.at + 1) ELSE ParseFail

RECURSIVE ParseDigits(_, _, _)
ParseDigits(s, i, acc) ==
    IF i <= Len(s) /\ IsDigitChar(s[i])
    THEN ParseDigits(s, i + 1, acc * 10 + DigitOf(s[i]))
    ELSE Parsed(acc, i)

HasAt(s, i, word) == i + Len(word) - 1 <= Len(s) /\ SubSeq(s, i, i + Len(word) - 1) = word

RECURSIVE ParseValue(_, _)
RECURSIVE ParseItems(_, _, _)
RECURSIVE ParseMembers(_, _, _)

ParseValue(s, at) ==
    LET i == SkipSpace(s, at)
    IN  IF i > Len(s) THEN ParseFail
        ELSE IF HasAt(s, i, <<"n", "u", "l", "l">>) THEN Parsed(JNull, i + 4)
        ELSE IF HasAt(s, i, <<"t", "r", "u", "e">>) THEN Parsed(JBoolean(TRUE), i + 4)
        ELSE IF HasAt(s, i, <<"f", "a", "l", "s", "e">>) THEN Parsed(JBoolean(FALSE), i + 5)
        ELSE IF s[i] = Quote
        THEN LET r == ParseChars(s, i + 1)
             IN  IF r.ok THEN Parsed(JString(r.val), r.next) ELSE ParseFail
        ELSE IF s[i] = "-"
        THEN IF i + 1 <= Len(s) /\ IsDigitChar(s[i + 1])
             THEN LET r == ParseDigits(s, i + 1, 0) IN Parsed(JNumber(-r.val), r.next)
             ELSE ParseFail
        ELSE IF IsDigitChar(s[i])
        THEN LET r == ParseDigits(s, i, 0) IN Parsed(JNumber(r.val), r.next)
        ELSE IF s[i] = "["
        THEN LET j == SkipSpace(s, i + 1)
             IN  IF j <= Len(s) /\ s[j] = "]" THEN Parsed(JArray(<<>>), j + 1)
                 ELSE ParseItems(s, j, <<>>)
        ELSE IF s[i] = "{"
        THEN LET j == SkipSpace(s, i + 1)
             IN  IF j <= Len(s) /\ s[j] = "}" THEN Parsed(JObject(<<>>), j + 1)
                 ELSE ParseMembers(s, j, <<>>)
        ELSE ParseFail

ParseItems(s, at, acc) ==
    LET r == ParseValue(s, at)
    IN  IF ~r.ok THEN ParseFail
        ELSE LET j == SkipSpace(s, r.next)
             IN  IF j > Len(s) THEN ParseFail
                 ELSE IF s[j] = "," THEN ParseItems(s, j + 1, Append(acc, r.val))
                 ELSE IF s[j] = "]" THEN Parsed(JArray(Append(acc, r.val)), j + 1)
                 ELSE ParseFail

ParseMembers(s, at, acc) ==
    LET i == SkipSpace(s, at)
    IN  IF i > Len(s) \/ s[i] # Quote THEN ParseFail
        ELSE LET k == ParseChars(s, i + 1)
             IN  IF ~k.ok THEN ParseFail
                 ELSE LET c == SkipSpace(s, k.next)
                      IN  IF c > Len(s) \/ s[c] # ":" THEN ParseFail
                          ELSE LET r == ParseValue(s, c + 1)
                               IN  IF ~r.ok THEN ParseFail
                                   ELSE LET j == SkipSpace(s, r.next)
                                            en == [key |-> k.val, val |-> r.val]
                                        IN  IF j > Len(s) THEN ParseFail
                                            ELSE IF s[j] = ","
                                            THEN ParseMembers(s, j + 1, Append(acc, en))
                                            ELSE IF s[j] = "}"
                                            THEN Parsed(JObject(Append(acc, en)), j + 1)
                                            ELSE ParseFail

\* the value a JSON text holds; ParseFail when the text is not JSON
JSONParse(text) ==
    LET r == ParseValue(text, 1)
    IN  IF r.ok /\ SkipSpace(text, r.next) = Len(text) + 1 THEN r.val ELSE ParseFail

(***************************************************************************)
(* The values the renderer is given: every kind of value, strings on both  *)
(* sides of the 200-character cap, lists and mappings on both sides of     *)
(* their caps, nested three levels deep.                                   *)
(***************************************************************************)
Alphabet == <<"a", "_", "b", "\"", " ", "\\">>

\* a string of n characters, the alphabet repeated from position off
PatternString(n, off) == [i \in 1..n |-> Alphabet[((i + off) % Len(Alphabet)) + 1]]

StringLengths == {0, 1, 2, 199, 200} \cup {200 + k : k \in 1..MaxStrOver}

Strings == {PatternString(n, off) : n \in StringLengths, off \in 0..MaxOff}

KeyPool == << <<"i", "d">>,
              <<"e", "x", "e", "c", "u", "t", "i", "v", "e", "_", "s", "u", "m", "m", "a", "r", "y">>,
              <<"a", "_", "b">>,
              <<"t", "o", "t", "a", "l", "-", "c", "o", "u", "n", "t">>,
              <<"q", "\"", "k">> >>

\* the i-th key of a mapping: distinct for distinct i
KeyOf(i) == IF i <= Len(KeyPool) THEN KeyPool[i] ELSE <<"k", "_">> \o NatToString(i)

LeafPool == << JString(PatternString(3, 0)), JNumber(42), JNull, JSymbol(<<"s">>),
               JBoolean(TRUE), JString(PatternString(201, 1)), JUndefined,
               JNumber(-7), JBoolean(FALSE), JBigInt(9),
               JFunction(<<"f", "(", ")">>), JString(<<>>) >>

Leaves == Range(LeafPool) \cup {JString(s) : s \in Strings}

\* a list of n values, the pool repeated from position off
ArrayOf(pool, n, off) == JArray([i \in 1..n |-> pool[((i + off) % Len(pool)) + 1]])

\* a mapping of n entries under distinct keys, in enumeration order
ObjectOf(pool, n, off) ==
    JObject([i \in 1..n |-> [key |-> KeyOf(i), val |-> pool[((i + off) % Len(pool)) + 1]]])

Composites(pool) ==
    {ArrayOf(pool, n, off) : n \in 0..MaxListLen, off \in 0..MaxOff}
    \cup {ObjectOf(pool, n, off) : n \in 0..MaxObjLen, off \in 0..MaxOff}

Level1Pool == << ArrayOf(LeafPool, 6, 0), ObjectOf(LeafPool, 4, 1), JArray(<<>>),
                 JObject(<<>>), JString(PatternString(202, 0)), JNull,
                 ArrayOf(LeafPool, 2, 3), JNumber(0) >>

Level2Pool == << ObjectOf(Level1Pool, 4, 0), ArrayOf(Level1Pool, 7, 2), JUndefined,
                 ArrayOf(LeafPool, 1, 0) >>

Values == Leaves \cup Composites(LeafPool) \cup Composites(Level1Pool)
          \cup Composites(Level2Pool)

(***************************************************************************)
(* State that a specification does not use stays at these values.          *)
(***************************************************************************)
NoValue == [kind |-> "none"]
IdleRenderer == value = NoValue /\ out = NotRendered
IdleViewer == asset = NoValue /\ activeView = "visual"
IdlePanel == activeSection = "insights" /\ managementMode = FALSE
IdleCallbacks == supplied = {} /\ calls = <<>>
IdleFormat == dateString = <<>> /\ confidence = 0 /\ label = NoValue
IdleKnowledge == knowledgeData = NoValue
IdleTeam == agents = NoValue /\ team = NotRendered
IdleTags == tag = NoValue /\ style = NoValue
IdleLabels == freeText = NoValue /\ humanized = NoValue

(***************************************************************************)
(* SpecRender: one render of SmartValueRenderer on a value.                *)
(***************************************************************************)
InitRender ==
    /\ value \in Values
    /\ out = NotRendered
    /\ IdleViewer /\ IdlePanel /\ IdleCallbacks /\ IdleFormat
    /\ IdleKnowledge /\ IdleTeam /\ IdleTags /\ IdleLabels

Render ==
    /\ out = NotRendered
    /\ out' = SmartValueRenderer(value)
    /\ UNCHANGED <<value, asset, supplied, activeView, activeSection,
                   managementMode, calls, dateString, confidence, label,
                   knowledgeData, agents, team, tag, style, freeText, humanized>>

NextRender == Render

SpecRender == InitRender /\ [][NextRender]_vars

(***************************************************************************)
(* Claims about SmartValueRenderer, checked under SpecRender.              *)
(***************************************************************************)
Rendered == out # NotRendered

OtherKinds == {"symbol", "bigint", "function"}

\* C1: SmartValueRenderer never throws: for every value, of every kind and
\* nesting, it returns a tree in which nothing was thrown, and a value that
\* is not null, undefined, a string, a number, a boolean, a list or a keyed
\* mapping is rendered as a plain text holding its default string conversion.
C1_RendererTotal ==
    Rendered =>
        /\ ~Throws(out)
        /\ out.node \in {"marker", "text", "truncated", "list", "object"}
        /\ value.kind \in OtherKinds => out = Text("plain", StringOf(value))
        /\ value = JSymbol(<<"s">>) =>
               out.text = <<"S", "y", "m", "b", "o", "l", "(", "s", ")">>

\* a list holding null and a value of another kind has been rendered
C1_Witness ==
    /\ Rendered
    /\ value.kind = "array"
    /\ out.node = "list"
    /\ \E i \in 1..Len(out.items) : out.items[i].child = Marker("null")
    /\ \E i \in 1..Len(out.items) :
           /\ value.items[i].kind \in OtherKinds
           /\ out.items[i].child.node = "text"

\* C2: a list of no items renders the empty-list marker and no item; a list of
\* 1 to 5 items renders every item, in order, at positions 1..|L|, without a
\* "more items" marker; a longer list renders its first 5 items, in order,
\* and a marker with the number |L| - 5. The count shown equals |L|.
C2_ListCap ==
    (Rendered /\ value.kind = "array") =>
        LET L == value.items
            shown == IF Len(L) > 5 THEN 5 ELSE Len(L)
        IN  /\ Len(L) = 0 => out = Marker("Empty list")
            /\ Len(L) > 0 =>
                   /\ out.node = "list"
                   /\ out.count = Len(L)
                   /\ Len(out.items) = shown
                   /\ \A i \in 1..shown :
                          /\ out.items[i].pos = i
                          /\ out.items[i].child = SmartValueRenderer(L[i])
                   /\ Len(L) <= 5 => out.more = <<>>
                   /\ Len(L) > 5 => out.more = <<Len(L) - 5>>

\* a list of more than 5 items has been rendered
C2_Witness ==
    /\ Rendered
    /\ value.kind = "array"
    /\ Len(value.items) > 5
    /\ out.node = "list"
    /\ Len(out.items) = 5

\* C3: a mapping of no entries renders the empty-object marker; a mapping of
\* 1 to 3 entries renders every entry without a "more properties" marker; a
\* larger mapping renders its first 3 entries, in enumeration order, and a
\* marker with the number |M| - 3.
C3_ObjectCap ==
    (Rendered /\ value.kind = "object") =>
        LET M == value.entries
            shown == IF Len(M) > 3 THEN 3 ELSE Len(M)
        IN  /\ Len(M) = 0 => out = Marker("Empty object")
            /\ Len(M) > 0 =>
                   /\ out.node = "object"
                   /\ Len(out.props) = shown
                   /\ \A i \in 1..shown :
                          /\ out.props[i].key = KeyLabel(M[i].key)
                          /\ out.props[i].child = SmartValueRenderer(M[i].val)
                   /\ Len(M) <= 3 => out.more = <<>>
                   /\ Len(M) > 3 => out.more = <<Len(M) - 3>>

\* a mapping of more than 3 entries has been rendered
C3_Witness ==
    /\ Rendered
    /\ value.kind = "object"
    /\ Len(value.entries) > 3
    /\ out.node = "object"
    /\ Len(out.props) = 3

\* C4: a string of at most 200 characters, the empty string and a string of
\* exactly 200 characters included, is rendered as itself; a longer string
\* is rendered as its first 200 characters, the ellipsis, and its length.
C4_StringCap ==
    (Rendered /\ value.kind = "string") =>
        LET s == value.str
        IN  IF Len(s) <= 200
            THEN out.node = "text" /\ out.text = s
            ELSE /\ out.node = "truncated"
                 /\ Len(out.text) = 203
                 /\ \A i \in 1..200 : out.text[i] = s[i]
                 /\ \A i \in 201..203 : out.text[i] = "."
                 /\ out.total = Len(s)

\* a string of exactly 200 characters has been rendered whole
C4_Witness ==
    /\ Rendered
    /\ value.kind = "string"
    /\ Len(value.str) = 200
    /\ out.node = "text"

\* a string of more than 200 characters has been rendered truncated
C4_WitnessLong ==
    /\ Rendered
    /\ value.kind = "string"
    /\ Len(value.str) > 200
    /\ out.node = "truncated"

(***************************************************************************)
(* formatDate.  new Date(dateString) parses the ISO local date-time form   *)
(* YYYY-MM-DDTHH:mm and gives an Invalid Date (time value NaN) for a       *)
(* string it cannot parse; it does not throw.  toLocaleDateString returns  *)
(* the string "Invalid Date" for an Invalid Date; it does not throw either.*)
(***************************************************************************)
NaN == [nan |-> TRUE]

\* the number written in s[from..to]
RECURSIVE NumberAt(_, _, _)
NumberAt(s, from, to) ==
    IF from > to THEN 0
    ELSE NumberAt(s, from, to - 1) * 10 + DigitOf(s[to])

IsoShape(s) ==
    /\ Len(s) = 16
    /\ \A i \in {1, 2, 3, 4, 6, 7, 9, 10, 12, 13, 15, 16} : IsDigitChar(s[i])
    /\ s[5] = "-" /\ s[8] = "-" /\ s[11] = "T" /\ s[14] = ":"

DaysInMonth(y, m) ==
    IF m \in {4, 6, 9, 11} THEN 30
    ELSE IF m # 2 THEN 31
    ELSE IF (y % 4 = 0 /\ y % 100 # 0) \/ y % 400 = 0 THEN 29 ELSE 28

\* new Date(dateString)
NewDate(s) ==
    IF ~IsoShape(s) THEN NaN
    ELSE LET y == NumberAt(s, 1, 4)
             mo == NumberAt(s, 6, 7)
             d == NumberAt(s, 9, 10)
             h == NumberAt(s, 12, 13)
             mi == NumberAt(s, 15, 16)
         IN  IF /\ mo \in 1..12
                /\ d \in 1..DaysInMonth(y, mo)
                /\ h \in 0..23
                /\ mi \in 0..59
             THEN [nan |-> FALSE, year |-> y, month |-> mo, day |-> d,
                   hour |-> h, minute |-> mi]
             ELSE NaN

MonthShort == <<"Jan", "Feb", "Mar", "Apr", "May", "Jun",
                "Jul", "Aug", "Sep", "Oct", "Nov", "Dec">>

FixedLabel(t) == [fixed |-> TRUE, text |-> t]

\* date.toLocaleDateString('en-US', { month: 'short', day: 'numeric',
\*                                    hour: '2-digit', minute: '2-digit' })
ToLocaleDateString(date) ==
    IF date.nan
    THEN [threw |-> FALSE, value |-> FixedLabel("Invalid Date")]
    ELSE [threw |-> FALSE,
          value |-> [fixed |-> FALSE,
                     month |-> MonthShort[date.month],
                     day |-> date.day,
                     hour |-> IF date.hour % 12 = 0 THEN 12 ELSE date.hour % 12,
                     minute |-> date.minute,
                     period |-> IF date.hour < 12 THEN "AM" ELSE "PM"]]

\* try { return new Date(dateString).toLocaleDateString(...) } catch { return 'Unknown' }
TryFormat(s) ==
    LET got == ToLocaleDateString(NewDate(s))
    IN  IF got.threw THEN FixedLabel("Unknown") ELSE got.value

\* InsightSection.formatDate
formatDate(s) == TryFormat(s)

\* KnowledgeInsightsArtifact.formatDate
Artifact_formatDate(s) == TryFormat(s)

(***************************************************************************)
(* getConfidenceColor.  A confidence is the rational num / den, den > 0,   *)
(* so that the comparisons with 0.8 and 0.6 are exact.                     *)
(***************************************************************************)
Conf(n, d) == [num |-> n, den |-> d]

\* c >= t / 10
AtLeastTenths(c, t) == 10 * c.num >= t * c.den

\* a tiering whose boundaries are exclusive
ConfidenceColor_Exclusive(c) ==
    IF 10 * c.num > 8 * c.den THEN "text-green-600 bg-green-100"
    ELSE IF 10 * c.num > 6 * c.den THEN "text-yellow-600 bg-yellow-100"
    ELSE "text-red-600 bg-red-100"

ConfidenceColor(c) ==
    IF AtLeastTenths(c, 8) THEN "text-green-600 bg-green-100"
    ELSE IF AtLeastTenths(c, 6) THEN "text-yellow-600 bg-yellow-100"
    ELSE "text-red-600 bg-red-100"

\* InsightSection.getConfidenceColor
getConfidenceColor(c) == ConfidenceColor(c)

\* KnowledgeInsightsArtifact.getConfidenceColor
Artifact_getConfidenceColor(c) == ConfidenceColor(c)

(***************************************************************************)
(* SpecFormat: one call of each helper on a date string and a confidence.  *)
(***************************************************************************)
TwoDigits(n) == <<Digits[(n \div 10) + 1], Digits[(n % 10) + 1]>>

IsoString(y, mo, d, h, mi) ==
    NatToString(y) \o <<"-">> \o TwoDigits(mo) \o <<"-">> \o TwoDigits(d)
    \o <<"T">> \o TwoDigits(h) \o <<":">> \o TwoDigits(mi)

NotADate == <<"n", "o", "t", "-", "a", "-", "d", "a", "t", "e">>

DateStrings ==
    {IsoString(2024, mo, d, h, mi) :
        mo \in {0, 1, 2, 12, 13}, d \in {0, 1, 29, 32}, h \in {0, 9, 12, 23, 25},
        mi \in {5, 60}}
    \cup {NotADate, <<>>, <<"2", "0", "2", "4">> \o NotADate,
          Slice(IsoString(2024, 1, 15, 10, 30), 0, 15)}

Confidences ==
    {Conf(n, 100000) : n \in {0, 1, 59999, 60000, 60001, 79999, 80000, 80001, 100000}}
    \cup {Conf(n, 10) : n \in {-1, 5, 6, 7, 8, 9, 10, 11}}

InitFormat ==
    /\ dateString \in DateStrings
    /\ confidence \in Confidences
    /\ label = NoValue
    /\ IdleRenderer /\ IdleViewer /\ IdlePanel /\ IdleCallbacks
    /\ IdleKnowledge /\ IdleTeam /\ IdleTags /\ IdleLabels

Format ==
    /\ label = NoValue
    /\ label' = [date |-> formatDate(dateString),
                 artifactDate |-> Artifact_formatDate(dateString),
                 color |-> getConfidenceColor(confidence),
                 artifactColor |-> Artifact_getConfidenceColor(confidence)]
    /\ UNCHANGED <<value, out, asset, supplied, activeView, activeSection,
                   managementMode, calls, dateString, confidence,
                   knowledgeData, agents, team, tag, style, freeText, humanized>>

NextFormat == Format

SpecFormat == InitFormat /\ [][NextFormat]_vars

(***************************************************************************)
(* Claims about the display helpers, checked under SpecFormat.             *)
(***************************************************************************)
Formatted == label # NoValue

\* C6: formatting a date string that cannot be parsed, such as "not-a-date",
\* returns the fixed label "Unknown".
C6_InvalidDateUnknown ==
    (Formatted /\ NewDate(dateString).nan) =>
        /\ label.date = FixedLabel("Unknown")
        /\ label.artifactDate = FixedLabel("Unknown")

High == "text-green-600 bg-green-100"
Medium == "text-yellow-600 bg-yellow-100"
Low == "text-red-600 bg-red-100"

TierRank(color) ==
    CASE color = High -> 3
      [] color = Medium -> 2
      [] color = Low -> 1
      [] OTHER -> 0

\* c1 <= c2, both denominators positive
ConfLeq(c1, c2) ==
    IF c1.den = c2.den THEN c1.num <= c2.num
    ELSE c1.num * c2.den <= c2.num * c1.den

\* C7: every confidence c gets exactly one of three tiers: high when
\* c >= 0.8, medium when 0.6 <= c < 0.8, low when c < 0.6; a larger confidence
\* never gets a lower tier; 0.8 is high, 0.6 is medium and 0.59999 is low.
C7_ConfidenceTiers ==
    Formatted =>
        LET c == confidence
        IN  /\ label.color \in {High, Medium, Low}
            /\ label.color = High <=> 10 * c.num >= 8 * c.den
            /\ label.color = Medium <=> (10 * c.num >= 6 * c.den /\ 10 * c.num < 8 * c.den)
            /\ label.color = Low <=> 10 * c.num < 6 * c.den
            /\ label.artifactColor = label.color
            /\ \A c2 \in Confidences :
                   ConfLeq(c, c2) => TierRank(label.color) <= TierRank(getConfidenceColor(c2))
            /\ c = Conf(8, 10) => label.color = High
            /\ c = Conf(80000, 100000) => label.color = High
            /\ c = Conf(6, 10) => label.color = Medium
            /\ c = Conf(59999, 100000) => label.color = Low

\* the boundary confidence 0.8 has been tiered
C7_Witness == Formatted /\ confidence = Conf(8, 10) /\ label.color = High

(***************************************************************************)
(* SmartAssetViewer.                                                       *)
(***************************************************************************)
Views == {"visual", "usage", "data"}

\* lines 122-126: the tabs, in the order they are rendered
ViewTabs == <<"visual", "usage", "data">>

\* !data
Falsy(v) ==
    \/ v.kind \in {"null", "undefined"}
    \/ v.kind = "string" /\ Len(v.str) = 0
    \/ v.kind = "number" /\ v.num = 0
    \/ v.kind = "boolean" /\ ~v.bool

\* lines 22-34: the title shown in the header
getAssetTypeInfo(assetName) == [type |-> "universal", title |-> KeyLabel(assetName)]

\* a Visual view that hands asset_data to the renderer's object branch, cap
\* and marker included
renderAssetContent_Capped(a) ==
    LET data == a.asset_data
    IN  IF Falsy(data) \/ TypeOf(data) # "object"
        THEN Marker("No data available for this asset")
        ELSE LET entries == ShownEntries(ObjectEntries(data).entries)
             IN  [node |-> "content",
                  fields |-> [i \in 1..Len(entries) |->
                                 [key |-> KeyLabel(entries[i].key),
                                  child |-> SmartValueRenderer(entries[i].val)]]]

\* lines 39-68
renderAssetContent(a) ==
    LET data == a.asset_data
    IN  IF Falsy(data) \/ TypeOf(data) # "object"
        THEN Marker("No data available for this asset")
        ELSE LET entries == ObjectEntries(data).entries
             IN  [node |-> "content",
                  fields |-> [i \in 1..Len(entries) |->
                                 [key |-> KeyLabel(entries[i].key),
                                  child |-> SmartValueRenderer(entries[i].val)]]]

\* lines 71-95: five fixed instructions, numbered from 1
renderUsageInstructions == [node |-> "usage", steps |-> [index \in 1..5 |-> (index - 1) + 1]]

\* a raw pane that serializes the entries the Visual view shows
RawDataPane_Capped(a) ==
    [node |-> "raw",
     json |-> JSONStringify(IF a.asset_data.kind = "object"
                            THEN JObject(Slice(a.asset_data.entries, 0, 3))
                            ELSE a.asset_data)]

\* lines 147-154
RawDataPane(a) == [node |-> "raw", json |-> JSONStringify(a.asset_data)]

\* lines 144-155: the panes whose condition holds, in order
ViewerContent(a, view) ==
    (IF view = "visual" THEN <<renderAssetContent(a)>> ELSE <<>>)
    \o (IF view = "usage" THEN <<renderUsageInstructions>> ELSE <<>>)
    \o (IF view = "data" THEN <<RawDataPane(a)>> ELSE <<>>)

\* lines 97-184: what the viewer renders
SmartAssetViewer(a, view) ==
    [title |-> getAssetTypeInfo(a.asset_name).title,
     tabs |-> [i \in 1..Len(ViewTabs) |-> [key |-> ViewTabs[i], active |-> view = ViewTabs[i]]],
     content |-> ViewerContent(a, view)]

\* a callback invocation and its argument
Call(fn, arg) == [fn |-> fn, arg |-> arg]
ClickEvent == [kind |-> "event"]

\* line 129: onClick={() => setActiveView(tab.key)}
SelectView(v) ==
    /\ asset # NoValue
    /\ activeView' = v
    /\ UNCHANGED <<value, out, asset, supplied, activeSection, managementMode,
                   calls, dateString, confidence, label,
                   knowledgeData, agents, team, tag, style, freeText, humanized>>

\* line 161: onClick={() => onDownload?.(asset)}
ClickDownload ==
    /\ asset # NoValue
    /\ Len(calls) < MaxCalls
    /\ calls' = IF "onDownload" \in supplied
                THEN Append(calls, Call("onDownload", asset))
                ELSE calls
    /\ UNCHANGED <<value, out, asset, supplied, activeView, activeSection,
                   managementMode, dateString, confidence, label,
                   knowledgeData, agents, team, tag, style, freeText, humanized>>

\* line 168: onClick={() => onRefine?.(asset)}
ClickRefine ==
    /\ asset # NoValue
    /\ Len(calls) < MaxCalls
    /\ calls' = IF "onRefine" \in supplied
                THEN Append(calls, Call("onRefine", asset))
                ELSE calls
    /\ UNCHANGED <<value, out, asset, supplied, activeView, activeSection,
                   managementMode, dateString, confidence, label,
                   knowledgeData, agents, team, tag, style, freeText, humanized>>

\* lines 111 and 175: onClick={onClose}
ClickClose ==
    /\ asset # NoValue
    /\ Len(calls) < MaxCalls
    /\ calls' = Append(calls, Call("onClose", ClickEvent))
    /\ UNCHANGED <<value, out, asset, supplied, activeView, activeSection,
                   managementMode, dateString, confidence, label,
                   knowledgeData, agents, team, tag, style, freeText, humanized>>

(***************************************************************************)
(* KnowledgeInsightsArtifact.                                              *)
(***************************************************************************)
\* line 33: the values the section state is declared to take
SectionType == {"insights", "practices", "learnings", "summary", "manage"}

\* tabs with one for every declared value of the section state
SectionTabs_WithManage == <<"insights", "practices", "learnings", "summary", "manage">>

\* lines 119-145: the tabs, in the order they are rendered
SectionTabs == <<"insights", "practices", "learnings", "summary">>

\* lines 149-177: the sections whose condition holds, in order
SectionContent(section) ==
    (IF section = "insights"
     THEN <<[component |-> "InsightSection", items |-> "insights"]>> ELSE <<>>)
    \o (IF section = "practices"
        THEN <<[component |-> "InsightSection", items |-> "bestPractices"]>> ELSE <<>>)
    \o (IF section = "learnings"
        THEN <<[component |-> "InsightSection", items |-> "learnings"]>> ELSE <<>>)
    \o (IF section = "summary"
        THEN <<[component |-> "SummaryView", items |-> "summary"]>> ELSE <<>>)

\* a panel that renders the section view whatever the mode
KnowledgePanel_AlwaysTabs(section, mode) ==
    [refresh |-> "onRefreshKnowledge" \in supplied,
     toggle |-> IF mode THEN "Exit Management" ELSE "Manage Insights",
     manager |-> IF mode THEN <<"KnowledgeInsightManager">> ELSE <<>>,
     tabs |-> [i \in 1..Len(SectionTabs) |->
                  [key |-> SectionTabs[i], active |-> section = SectionTabs[i]]],
     content |-> SectionContent(section)]

\* lines 68-191: what the panel renders
KnowledgePanel(section, mode) ==
    [refresh |-> "onRefreshKnowledge" \in supplied,
     toggle |-> IF mode THEN "Exit Management" ELSE "Manage Insights",
     manager |-> IF mode THEN <<"KnowledgeInsightManager">> ELSE <<>>,
     tabs |-> IF mode THEN <<>>
              ELSE [i \in 1..Len(SectionTabs) |->
                       [key |-> SectionTabs[i], active |-> section = SectionTabs[i]]],
     content |-> IF mode THEN <<>> ELSE SectionContent(section)]

\* a tab handler that deselects the tab that is already active
SelectSection_Toggles(s) ==
    /\ \E i \in 1..Len(KnowledgePanel(activeSection, managementMode).tabs) :
           KnowledgePanel(activeSection, managementMode).tabs[i].key = s
    /\ activeSection' = IF activeSection = s THEN "manage" ELSE s
    /\ UNCHANGED <<value, out, asset, supplied, activeView, managementMode,
                   calls, dateString, confidence, label,
                   knowledgeData, agents, team, tag, style, freeText, humanized>>

\* lines 121, 128, 135, 142: onClick={() => setActiveSection(s)}; the tabs
\* are rendered, and can be clicked, only outside management mode
SelectSection(s) ==
    /\ \E i \in 1..Len(KnowledgePanel(activeSection, managementMode).tabs) :
           KnowledgePanel(activeSection, managementMode).tabs[i].key = s
    /\ activeSection' = s
    /\ UNCHANGED <<value, out, asset, supplied, activeView, managementMode,
                   calls, dateString, confidence, label,
                   knowledgeData, agents, team, tag, style, freeText, humanized>>

\* a toggle that resets the section to its default
ToggleManagement_ResetsSection ==
    /\ managementMode' = ~managementMode
    /\ activeSection' = "insights"
    /\ UNCHANGED <<value, out, asset, supplied, activeView, calls,
                   dateString, confidence, label,
                   knowledgeData, agents, team, tag, style, freeText, humanized>>

\* line 88: onClick={() => setManagementMode(!managementMode)}
ToggleManagement ==
    /\ managementMode' = ~managementMode
    /\ UNCHANGED <<value, out, asset, supplied, activeView, activeSection,
                   calls, dateString, confidence, label,
                   knowledgeData, agents, team, tag, style, freeText, humanized>>

\* lines 74-84: the Refresh button, rendered when onRefreshKnowledge is supplied
ClickRefresh ==
    /\ KnowledgePanel(activeSection, managementMode).refresh
    /\ Len(calls) < MaxCalls
    /\ calls' = Append(calls, Call("onRefreshKnowledge", ClickEvent))
    /\ UNCHANGED <<value, out, asset, supplied, activeView, activeSection,
                   managementMode, dateString, confidence, label,
                   knowledgeData, agents, team, tag, style, freeText, humanized>>

(***************************************************************************)
(* The props the asset viewer is mounted with.                             *)
(***************************************************************************)
JsonLeafPool == << JString(PatternString(3, 0)), JNumber(42), JNull, JBoolean(TRUE),
                   JString(PatternString(201, 1)), JNumber(-7), JBoolean(FALSE),
                   JString(<<>>) >>

JsonLevel1Pool == << ArrayOf(JsonLeafPool, 6, 0), ObjectOf(JsonLeafPool, 4, 1),
                     JArray(<<>>), JObject(<<>>), JString(PatternString(5, 2)), JNull >>

ShortText == <<"S", "h", "o", "r", "t", " ", "t", "e", "x", "t">>

ScenarioData == JObject(<< [key |-> KeyPool[2], val |-> JString(ShortText)] >>)

AssetData ==
    {ScenarioData, JNull, JUndefined, JString(ShortText), JNumber(5), JObject(<<>>),
     JString(<<>>), JNumber(0), JBoolean(TRUE), JBoolean(FALSE),
     ArrayOf(JsonLeafPool, MaxListLen, 0),
     ObjectOf(JsonLeafPool, MaxObjLen, 0),
     ObjectOf(JsonLevel1Pool, MaxObjLen, 0),
     ObjectOf(JsonLevel1Pool, 2, 0)}

Assets == {[asset_name |-> KeyPool[3], asset_data |-> d] : d \in AssetData}

OptionalCallbacks == {"onDownload", "onRefine", "onRefreshKnowledge", "onInsightAction"}

(***************************************************************************)
(* Claims about the asset viewer and the knowledge panel, checked under    *)
(* Spec.                                                                   *)
(***************************************************************************)
\* whether a rendered tree hides part of the value it was rendered from
RECURSIVE Hides(_)
Hides(n) ==
    CASE n.node = "truncated" -> TRUE
      [] n.node = "list" ->
            n.more # <<>> \/ \E i \in 1..Len(n.items) : Hides(n.items[i].child)
      [] n.node = "object" ->
            n.more # <<>> \/ \E i \in 1..Len(n.props) : Hides(n.props[i].child)
      [] n.node = "content" -> \E i \in 1..Len(n.fields) : Hides(n.fields[i].child)
      [] OTHER -> FALSE

ExecutiveSummaryLabel ==
    <<"E", "x", "e", "c", "u", "t", "i", "v", "e", " ", "S", "u", "m", "m", "a", "r", "y">>

\* {
\*   "executive_summary": "Short text"
\* }
ScenarioJSON ==
    <<"{", Newline, " ", " ", Quote>> \o KeyPool[2] \o <<Quote, ":", " ", Quote>>
    \o ShortText \o <<Quote, Newline, "}">>

\* C5: whatever the caps hide in the Visual view, the Raw Data view shows
\* the JSON text of the whole asset_data: the text read back is asset_data,
\* entry for entry and character for character (an undefined asset_data has
\* no JSON text and nothing is shown). For {executive_summary: "Short text"}
\* the Visual view shows the one field Executive Summary with the value
\* Short text, and the Raw Data view its pretty-printed JSON.
C5_RawDataWhole ==
    LET shown == SmartAssetViewer(asset, activeView).content
    IN  /\ activeView = "data" =>
               /\ Len(shown) = 1
               /\ shown[1].node = "raw"
               /\ IF asset.asset_data = JUndefined
                  THEN shown[1].json.kind = "undefined"
                  ELSE /\ shown[1].json.kind = "text"
                       /\ JSONParse(shown[1].json.text) = asset.asset_data
        /\ (activeView = "visual" /\ asset.asset_data = ScenarioData) =>
               shown = << [node |-> "content",
                           fields |-> << [key |-> ExecutiveSummaryLabel,
                                          child |-> Text("plain", ShortText)] >>] >>
        /\ (activeView = "data" /\ asset.asset_data = ScenarioData) =>
               shown[1].json.text = ScenarioJSON

\* the Raw Data view is open on an asset whose Visual view hides something
C5_Witness ==
    /\ asset # NoValue
    /\ activeView = "data"
    /\ Hides(renderAssetContent(asset))
    /\ SmartAssetViewer(asset, activeView).content[1].json.kind = "text"

\* C8: no step taken in management mode, into it or out of it changes the
\* active section, so toggling management mode on and off again leaves the
\* section that was active before the first toggle.
C8_SelectionPreserved ==
    [][(managementMode \/ managementMode') => activeSection' = activeSection]_vars

\* management mode is on over a section that is not the default
C8_Witness == managementMode /\ activeSection = "learnings"

SectionItems(section) ==
    CASE section = "insights" -> "insights"
      [] section = "practices" -> "bestPractices"
      [] section = "learnings" -> "learnings"
      [] section = "summary" -> "summary"
      [] OTHER -> "none"

C9_OneSubtree ==
    LET p == KnowledgePanel(activeSection, managementMode)
    IN  IF managementMode
        THEN /\ p.manager = <<"KnowledgeInsightManager">>
             /\ p.tabs = <<>>
             /\ p.content = <<>>
        ELSE /\ p.manager = <<>>
             /\ Len(p.tabs) = 4
             /\ Len(p.content) = 1
             /\ p.content[1].items = SectionItems(activeSection)

\* C9: in management mode the management sub-tree is rendered and neither
\* the tabs nor a section; otherwise the tabs and the content of the active
\* section are rendered and the management sub-tree is not. A toggle
\* complements the mode.
C9_DisjointSubtrees ==
    /\ []C9_OneSubtree
    /\ [][ToggleManagement => managementMode' = ~managementMode]_vars

\* management mode has been switched on
C9_Witness ==
    /\ managementMode
    /\ KnowledgePanel(activeSection, managementMode).manager # <<>>
    /\ KnowledgePanel(activeSection, managementMode).tabs = <<>>

SelectionEffect ==
    /\ \A s \in SectionType :
           SelectSection(s) =>
               /\ activeSection' = s
               /\ s \in Range(SectionTabs)
               /\ UNCHANGED <<managementMode, activeView, calls, asset, supplied>>
               /\ activeSection = s => UNCHANGED vars
    /\ \A v \in Views :
           SelectView(v) =>
               /\ activeView' = v
               /\ UNCHANGED <<managementMode, activeSection, calls, asset, supplied>>
               /\ activeView = v => UNCHANGED vars

AlwaysEnabled ==
    /\ \A s \in Range(SectionTabs) : ENABLED SelectSection(s)
    /\ \A v \in Views : ENABLED SelectView(v)

\* C10 as stated: in every reachable state every section of the panel and
\* every view of the asset viewer can be selected, and a selection makes its
\* section active, is idempotent and changes nothing else.
C10_AsStated == []AlwaysEnabled /\ [][SelectionEffect]_vars

\* C10, amended: a view of the asset viewer can be selected in every
\* reachable state, and a section of the knowledge panel in every reachable
\* state in which management mode is off; a selection makes its section
\* (view) the active one, a second selection of it changes nothing, and it
\* changes neither management mode nor the other component nor the
\* callbacks invoked.
C10_SelectionIdempotent ==
    /\ [](/\ ~managementMode => \A s \in Range(SectionTabs) : ENABLED SelectSection(s)
          /\ managementMode => \A s \in SectionType : ~ENABLED SelectSection(s)
          /\ \A v \in Views : ENABLED SelectView(v))
    /\ [][SelectionEffect]_vars

\* a section and a view other than the defaults have been selected
C10_Witness == ~managementMode /\ activeSection = "practices" /\ activeView = "usage"

(***************************************************************************)
(* The style helpers of ProjectTeamSection and the icon helper of the      *)
(* insight card.  A helper returns a value or raises a TypeError.          *)
(***************************************************************************)
Returned(v) == [threw |-> FALSE, val |-> v]
TypeError == [threw |-> TRUE]

\* the string literals of the source: the tags the helpers compare with,
\* the property name status, and the texts 'Insight' and "Non specificati"
Literal ==
    [junior |-> <<"j", "u", "n", "i", "o", "r">>,
     senior |-> <<"s", "e", "n", "i", "o", "r">>,
     expert |-> <<"e", "x", "p", "e", "r", "t">>,
     active |-> <<"a", "c", "t", "i", "v", "e">>,
     created |-> <<"c", "r", "e", "a", "t", "e", "d">>,
     paused |-> <<"p", "a", "u", "s", "e", "d">>,
     error |-> <<"e", "r", "r", "o", "r">>,
     healthy |-> <<"h", "e", "a", "l", "t", "h", "y">>,
     degraded |-> <<"d", "e", "g", "r", "a", "d", "e", "d">>,
     unhealthy |-> <<"u", "n", "h", "e", "a", "l", "t", "h", "y">>,
     unknown |-> <<"u", "n", "k", "n", "o", "w", "n">>,
     beginner |-> <<"b", "e", "g", "i", "n", "n", "e", "r">>,
     intermediate |-> <<"i", "n", "t", "e", "r", "m", "e", "d", "i", "a", "t", "e">>,
     success_pattern |-> <<"s", "u", "c", "c", "e", "s", "s", "_", "p", "a", "t", "t", "e", "r", "n">>,
     failure_lesson |-> <<"f", "a", "i", "l", "u", "r", "e", "_", "l", "e", "s", "s", "o", "n">>,
     discovery |-> <<"d", "i", "s", "c", "o", "v", "e", "r", "y">>,
     constraint |-> <<"c", "o", "n", "s", "t", "r", "a", "i", "n", "t">>,
     optimization |-> <<"o", "p", "t", "i", "m", "i", "z", "a", "t", "i", "o", "n">>,
     status |-> <<"s", "t", "a", "t", "u", "s">>,
     Insight |-> <<"I", "n", "s", "i", "g", "h", "t">>,
     non_specificati |-> <<"N", "o", "n", " ", "s", "p", "e", "c", "i", "f", "i", "c", "a", "t", "i">>]

\* String.prototype.toLowerCase and toUpperCase
ToLowerCase(c) ==
    IF c \in Range(UpperCase)
    THEN LowerCase[CHOOSE i \in 1..Len(UpperCase) : UpperCase[i] = c]
    ELSE c
StringToLowerCase(s) == [i \in 1..Len(s) |-> ToLowerCase(s[i])]
StringToUpperCase(s) == [i \in 1..Len(s) |-> ToUpperCase(s[i])]

\* v[key] for a key that only an own property can supply
GetProperty(v, key) ==
    IF v.kind = "object" /\ \E i \in 1..Len(v.entries) : v.entries[i].key = key
    THEN v.entries[CHOOSE i \in 1..Len(v.entries) : v.entries[i].key = key].val
    ELSE JUndefined

\* ProjectTeamSection.tsx lines 13-20
getSeniorityColor(seniority) ==
    CASE seniority = JString(Literal.junior) -> Returned("bg-blue-100 text-blue-800 border-blue-200")
      [] seniority = JString(Literal.senior) -> Returned("bg-purple-100 text-purple-800 border-purple-200")
      [] seniority = JString(Literal.expert) -> Returned("bg-indigo-100 text-indigo-800 border-indigo-200")
      [] OTHER -> Returned("bg-gray-100 text-gray-800 border-gray-200")

\* ProjectTeamSection.tsx lines 22-30
getStatusColor(status) ==
    CASE status = JString(Literal.active) -> Returned("bg-green-100 text-green-800")
      [] status = JString(Literal.created) -> Returned("bg-blue-100 text-blue-800")
      [] status = JString(Literal.paused) -> Returned("bg-yellow-100 text-yellow-800")
      [] status = JString(Literal.error) -> Returned("bg-red-100 text-red-800")
      [] OTHER -> Returned("bg-gray-100 text-gray-800")

\* ProjectTeamSection.tsx line 33: health?.status || 'unknown'
HealthStatus(health) ==
    LET status == IF IsAbsent(health) THEN JUndefined ELSE GetProperty(health, Literal.status)
    IN  IF Falsy(status) THEN JString(Literal.unknown) ELSE status

\* ProjectTeamSection.tsx lines 32-40
getHealthColor(health) ==
    LET status == HealthStatus(health)
    IN  CASE status = JString(Literal.healthy) -> Returned("bg-green-100 text-green-800 border-green-200")
          [] status = JString(Literal.degraded) -> Returned("bg-yellow-100 text-yellow-800 border-yellow-200")
          [] status = JString(Literal.unhealthy) -> Returned("bg-red-100 text-red-800 border-red-200")
          [] OTHER -> Returned("bg-gray-100 text-gray-800 border-gray-200")

\* ProjectTeamSection.tsx line 44: level?.toLowerCase(); only a string has
\* the method, so calling it on any other value that is not null or
\* undefined raises a TypeError
LevelKey(level) ==
    IF IsAbsent(level) THEN Returned(JUndefined)
    ELSE IF level.kind = "string" THEN Returned(JString(StringToLowerCase(level.str)))
    ELSE TypeError

\* ProjectTeamSection.tsx lines 43-50
getSkillLevelColor(level) ==
    LET key == LevelKey(level)
    IN  IF key.threw THEN TypeError
        ELSE CASE key.val = JString(Literal.beginner) -> Returned("text-blue-600")
               [] key.val = JString(Literal.intermediate) -> Returned("text-purple-600")
               [] key.val = JString(Literal.expert) -> Returned("text-indigo-600")
               [] OTHER -> Returned("text-gray-600")

\* ProjectTeamSection.tsx lines 88-92: the level of a skill is styled and
\* shown only when it is truthy
SkillLevelStyle(level) ==
    IF Falsy(level) THEN Returned("") ELSE getSkillLevelColor(level)

\* part_000 lines 369-378 (and 51-60); the emoji are named
getInsightTypeIcon(type) ==
    CASE type = JString(Literal.success_pattern) -> Returned("check")
      [] type = JString(Literal.failure_lesson) -> Returned("warning")
      [] type = JString(Literal.discovery) -> Returned("magnifier")
      [] type = JString(Literal.constraint) -> Returned("construction")
      [] type = JString(Literal.optimization) -> Returned("bolt")
      [] OTHER -> Returned("bulb")

(***************************************************************************)
(* SpecTags: every style helper applied to one tag value.                  *)
(***************************************************************************)
SeniorityTags == {Literal.junior, Literal.senior, Literal.expert}
StatusTags == {Literal.active, Literal.created, Literal.paused, Literal.error}
HealthTags == {Literal.healthy, Literal.degraded, Literal.unhealthy}
SkillTags == {Literal.beginner, Literal.intermediate, Literal.expert}
InsightTags == {Literal.success_pattern, Literal.failure_lesson, Literal.discovery, Literal.constraint, Literal.optimization}
KnownTags == SeniorityTags \cup StatusTags \cup HealthTags \cup SkillTags \cup InsightTags

\* s with its first character in upper case
Capitalized(s) == [i \in 1..Len(s) |-> IF i = 1 THEN ToUpperCase(s[i]) ELSE s[i]]

TagStrings ==
    KnownTags \cup {Capitalized(s) : s \in KnownTags}
              \cup {StringToUpperCase(s) : s \in KnownTags}
              \cup {Literal.unknown, <<>>, <<"l", "e", "a", "d">>}

TagValues ==
    {JString(s) : s \in TagStrings}
    \cup {JUndefined, JNull, JNumber(0), JNumber(3), JBoolean(FALSE), JBoolean(TRUE),
          JArray(<<>>), JObject(<<>>),
          JObject(<<[key |-> Literal.status, val |-> JString(Literal.healthy)]>>)}

InitTags ==
    /\ tag \in TagValues
    /\ style = NoValue
    /\ IdleRenderer /\ IdleViewer /\ IdlePanel /\ IdleCallbacks /\ IdleFormat
    /\ IdleKnowledge /\ IdleTeam /\ IdleLabels

\* the tag as an agent's seniority, status and health.status, as the agent's
\* health itself, as a skill's level and as an insight's type
StyleTag ==
    /\ style = NoValue
    /\ style' = [seniority |-> getSeniorityColor(tag),
                 status |-> getStatusColor(tag),
                 healthStatus |-> getHealthColor(JObject(<<[key |-> Literal.status, val |-> tag]>>)),
                 health |-> getHealthColor(tag),
                 skill |-> SkillLevelStyle(tag),
                 insight |-> getInsightTypeIcon(tag)]
    /\ UNCHANGED <<value, out, asset, supplied, activeView, activeSection,
                   managementMode, calls, dateString, confidence, label,
                   knowledgeData, agents, team, tag, freeText, humanized>>

SpecTags == InitTags /\ [][StyleTag]_vars

(***************************************************************************)
(* Claims about the style helpers, checked under SpecTags.                 *)
(***************************************************************************)
Styled == style # NoValue

\* the tag is none of the values the helper's switch names
Unrecognized(names) == tag.kind # "string" \/ tag.str \notin names

SeniorityFallback == "bg-gray-100 text-gray-800 border-gray-200"
StatusFallback == "bg-gray-100 text-gray-800"
HealthFallback == "bg-gray-100 text-gray-800 border-gray-200"
SkillFallback == "text-gray-600"
InsightFallback == "bulb"

\* C11: no style helper fails, whatever the tag is, and a tag that is not
\* one of the helper's recognized values (an absent one and one that is not
\* a string included) gets the helper's neutral fallback style or icon; a
\* skill level is shown, and styled, only when it is truthy
C11_UnrecognizedFallsBack ==
    Styled =>
        /\ ~style.seniority.threw /\ ~style.status.threw /\ ~style.healthStatus.threw
        /\ ~style.health.threw /\ ~style.skill.threw /\ ~style.insight.threw
        /\ Unrecognized(SeniorityTags) => style.seniority.val = SeniorityFallback
        /\ Unrecognized(StatusTags) => style.status.val = StatusFallback
        /\ Unrecognized(HealthTags) => style.healthStatus.val = HealthFallback
        /\ Unrecognized(InsightTags) => style.insight.val = InsightFallback
        /\ (Unrecognized({s \in TagStrings : StringToLowerCase(s) \in SkillTags}) /\ ~Falsy(tag))
               => style.skill.val = SkillFallback

(***************************************************************************)
(* The sections of the knowledge panel.  An insight item and a summary are *)
(* objects whose properties are JavaScript values; a property the object   *)
(* lacks reads as undefined.  A confidence is the number num / den.        *)
(***************************************************************************)
JFraction(n, d) == [kind |-> "number", num |-> n, den |-> d]

Insight(type, conf, created, content, tags) ==
    [kind |-> "object", type |-> type, confidence |-> conf, created_at |-> created,
     content |-> content, tags |-> tags]

SummaryOf(discoveries, constraints, patterns, tags) ==
    [kind |-> "object", recent_discoveries |-> discoveries, key_constraints |-> constraints,
     success_patterns |-> patterns, top_tags |-> tags]

\* part_000 lines 152, 160, 168: list || []
OrEmptyList(list) == IF Falsy(list) THEN JArray(<<>>) ELSE list

\* part_000 lines 123, 499: list?.length > 0, for a list that is absent or
\* an array
HasItems(list) == ~IsAbsent(list) /\ Len(list.items) > 0

\* s.replace('_', ' '): a string pattern replaces the first match only
ReplaceFirst(s, c, d) ==
    [i \in 1..Len(s) |->
        IF s[i] = c /\ \A j \in 1..(i - 1) : s[j] # c THEN d ELSE s[i]]

\* part_000 line 409: item.type?.replace('_', ' ') || 'Insight'; only a
\* string has the method
InsightTypeLabel(type) ==
    IF IsAbsent(type) THEN Returned(Literal.Insight)
    ELSE IF type.kind = "string"
    THEN LET spaced == ReplaceFirst(type.str, "_", " ")
         IN  Returned(IF spaced = <<>> THEN Literal.Insight ELSE spaced)
    ELSE TypeError

\* Math.round(c * 100), the half rounded up
RoundPercent(c) == (200 * c.num + c.den) \div (2 * c.den)

\* part_000 lines 413-417: item.confidence && (<span>...</span>); React
\* renders nothing for undefined, null and false, and the number itself for
\* a falsy number
ConfidenceBadge(conf) ==
    IF Falsy(conf)
    THEN IF conf.kind = "number" THEN <<[node |-> "number", text |-> NatToString(conf.num)]>>
         ELSE <<>>
    ELSE <<[node |-> "badge", cls |-> getConfidenceColor(conf),
            text |-> NatToString(RoundPercent(conf))
                     \o <<"%", " ", "c", "o", "n", "f", "i", "d", "e", "n", "c", "e">>]>>

\* part_000 line 419: formatDate(item.created_at), for a created_at that
\* is a string or is missing; new Date(undefined) is an invalid date, as
\* new Date('') is
CardDate(created) == formatDate(IF created.kind = "string" THEN created.str ELSE <<>>)

\* part_000 lines 428-441: the first five tags and the "+N more" marker
CardTags(tags) ==
    IF Falsy(tags) \/ Len(tags.items) = 0
    THEN [shown |-> <<>>, more |-> <<>>]
    ELSE [shown |-> Slice(tags.items, 0, 5),
          more |-> IF Len(tags.items) > 5 THEN <<Len(tags.items) - 5>> ELSE <<>>]

\* part_000 lines 443-458
CardActions(hasAction) == IF hasAction THEN <<"Apply Learning", "Find Similar">> ELSE <<>>

\* part_000 lines 403-459: one card
InsightCard(item, hasAction) ==
    LET typeLabel == InsightTypeLabel(item.type)
    IN  IF typeLabel.threw THEN Thrown
        ELSE [node |-> "card",
              icon |-> getInsightTypeIcon(item.type).val,
              type |-> typeLabel.val,
              badge |-> ConfidenceBadge(item.confidence),
              date |-> CardDate(item.created_at),
              content |-> item.content,
              tags |-> CardTags(item.tags),
              actions |-> CardActions(hasAction)]

NoItemsText == "No items available yet. Check back as your team makes progress."
NoSummaryText == "Summary data will appear as more insights are collected."

\* a section that renders an empty list as a list of no cards
InsightSection_NoPlaceholder(title, items, hasAction) ==
    LET cards == [i \in 1..Len(items.items) |-> InsightCard(items.items[i], hasAction)]
    IN  IF \E i \in 1..Len(cards) : cards[i] = Thrown THEN Thrown
        ELSE [node |-> "section", title |-> title, cards |-> cards]

\* part_000 lines 355-464
InsightSection(title, items, hasAction) ==
    IF Falsy(items) \/ Len(items.items) = 0
    THEN [node |-> "placeholder", title |-> title, text |-> NoItemsText]
    ELSE LET cards == [i \in 1..Len(items.items) |-> InsightCard(items.items[i], hasAction)]
         IN  IF \E i \in 1..Len(cards) : cards[i] = Thrown THEN Thrown
             ELSE [node |-> "section", title |-> title, cards |-> cards]

\* part_000 lines 499-509 (518, 537, 556): the items, or the text shown in
\* their place
SummaryPart(list, emptyText) ==
    IF HasItems(list) THEN [items |-> list.items, empty |-> <<>>]
    ELSE [items |-> <<>>, empty |-> <<emptyText>>]

\* part_000 lines 476-570
SummaryView(summary) ==
    IF Falsy(summary)
    THEN [node |-> "placeholder", title |-> "Knowledge Summary", text |-> NoSummaryText]
    ELSE [node |-> "summary",
          recent_discoveries |-> SummaryPart(summary.recent_discoveries, "No recent discoveries"),
          key_constraints |-> SummaryPart(summary.key_constraints, "No constraints identified"),
          success_patterns |-> SummaryPart(summary.success_patterns,
                                           "No success patterns identified"),
          top_tags |-> SummaryPart(summary.top_tags, "No tags available")]

\* part_000 lines 123, 130, 137 and 219: count = list?.length || 0, shown
\* when it is positive
TabCount(list) == IF HasItems(list) THEN <<Len(list.items)>> ELSE <<>>

\* part_000 lines 151, 159, 167
SectionTitle(items) ==
    CASE items = "insights" -> "Insights & Discoveries"
      [] items = "bestPractices" -> "Best Practices"
      [] items = "learnings" -> "Learnings & Constraints"

\* part_000 lines 148-177: the content of the panel, rendered from the data
PanelBody(kd, section, mode) ==
    LET content == KnowledgePanel(section, mode).content
    IN  [i \in 1..Len(content) |->
            IF content[i].component = "InsightSection"
            THEN InsightSection(SectionTitle(content[i].items),
                                OrEmptyList(kd[content[i].items]),
                                "onInsightAction" \in supplied)
            ELSE SummaryView(kd.summary)]

\* part_000 lines 68-191: the panel with its data
KnowledgeInsightsArtifact(kd, section, mode) ==
    [panel |-> KnowledgePanel(section, mode),
     counts |-> IF mode THEN <<>>
                ELSE <<TabCount(kd.insights), TabCount(kd.bestPractices),
                       TabCount(kd.learnings)>>,
     body |-> PanelBody(kd, section, mode),
     ai |-> ~Falsy(kd.ai_enabled)]

(***************************************************************************)
(* The props the knowledge panel is mounted with.                          *)
(***************************************************************************)
TagName(i) == <<"t">> \o NatToString(i)
TagList(n) == JArray([i \in 1..n |-> JString(TagName(i))])
Note(i) == JString(<<"n", "o", "t", "e", " ">> \o NatToString(i))
NoteList(n) == JArray([i \in 1..n |-> Note(i)])

LongType == <<"k", "e", "y", "_", "r", "i", "s", "k", "-", "i", "t", "e", "m", "_", "x">>

InsightPool ==
    << Insight(JString(Literal.success_pattern), JFraction(856, 1000),
               JString(IsoString(2024, 1, 15, 10, 30)), Note(1), TagList(2)),
       Insight(JUndefined, JUndefined, JUndefined, Note(2), JUndefined),
       Insight(JString(LongType), JFraction(0, 1), JString(NotADate), Note(3), TagList(7)),
       Insight(JString(Literal.discovery), JFraction(6, 10),
               JString(IsoString(2024, 12, 1, 0, 5)), Note(4), JArray(<<>>)),
       Insight(JString(Literal.constraint), JNull, JString(IsoString(2024, 2, 29, 23, 5)),
               Note(5), TagList(5)),
       Insight(JString(Literal.failure_lesson), JFraction(254, 1000), JUndefined, Note(6), JNull) >>

Knowledge(insights, bestPractices, learnings, summary, ai) ==
    [insights |-> insights, bestPractices |-> bestPractices, learnings |-> learnings,
     summary |-> summary, ai_enabled |-> ai]

EmptyKnowledge == Knowledge(JArray(<<>>), JArray(<<>>), JArray(<<>>), JUndefined, JUndefined)

KnowledgeSet ==
    {EmptyKnowledge,
     Knowledge(JArray(<<InsightPool[1], InsightPool[2]>>), JArray(<<>>), JUndefined,
               JUndefined, JBoolean(TRUE)),
     Knowledge(JUndefined, JArray(<<InsightPool[3], InsightPool[4]>>), JArray(<<>>),
               SummaryOf(NoteList(2), NoteList(1), NoteList(3), TagList(4)), JUndefined),
     Knowledge(JArray(<<>>), JNull, JArray(<<InsightPool[5], InsightPool[6]>>),
               SummaryOf(JUndefined, JArray(<<>>), NoteList(1), JNull), JBoolean(FALSE)),
     Knowledge(JNull, JUndefined, JUndefined, JNull, JUndefined)}

(***************************************************************************)
(* Claims about absent data in the knowledge panel, checked under Spec.    *)
(***************************************************************************)
\* a list with an absent list replaced by the empty list
AsList(list) == IF IsAbsent(list) THEN JArray(<<>>) ELSE list

\* the insight items with absent tags replaced by the empty list
WithTags(list) ==
    JArray([i \in 1..Len(AsList(list).items) |->
               [AsList(list).items[i] EXCEPT !.tags = AsList(@)]])

\* knowledgeData with every absent list replaced by the empty list
WithLists(kd) ==
    [insights |-> WithTags(kd.insights),
     bestPractices |-> WithTags(kd.bestPractices),
     learnings |-> WithTags(kd.learnings),
     summary |-> IF IsAbsent(kd.summary) THEN kd.summary
                 ELSE SummaryOf(AsList(kd.summary.recent_discoveries),
                                AsList(kd.summary.key_constraints),
                                AsList(kd.summary.success_patterns),
                                AsList(kd.summary.top_tags)),
     ai_enabled |-> kd.ai_enabled]

\* C12: outside management mode the panel renders without failing whatever
\* is absent from knowledgeData: a section whose list is absent or empty
\* shows the "No items available yet" placeholder and no count on its tab,
\* an absent summary shows the "Summary data will appear" placeholder, and
\* an absent list inside the summary or absent tags of an item render as
\* the empty list does.
C12_AbsentDataPlaceholders ==
    LET kd == knowledgeData
        shown == KnowledgeInsightsArtifact(kd, activeSection, managementMode)
        list == IF activeSection = "summary" THEN JUndefined
                ELSE kd[SectionItems(activeSection)]
    IN  ~managementMode =>
            /\ Len(shown.body) = 1
            /\ shown.body[1] # Thrown
            /\ shown = KnowledgeInsightsArtifact(WithLists(kd), activeSection, managementMode)
            /\ (activeSection # "summary" /\ (IsAbsent(list) \/ list = JArray(<<>>))) =>
                   /\ shown.body[1].node = "placeholder"
                   /\ shown.body[1].text = NoItemsText
            /\ (activeSection # "summary" /\ shown.body[1].node = "section") =>
                   \A i \in 1..Len(list.items) :
                       IsAbsent(list.items[i].tags) =>
                           shown.body[1].cards[i].tags = [shown |-> <<>>, more |-> <<>>]
            /\ (activeSection = "summary" /\ IsAbsent(kd.summary)) =>
                   /\ shown.body[1].node = "placeholder"
                   /\ shown.body[1].text = NoSummaryText
            /\ (activeSection = "summary" /\ ~IsAbsent(kd.summary)) =>
                   /\ shown.body[1].node = "summary"
                   /\ IsAbsent(kd.summary.recent_discoveries) =>
                          shown.body[1].recent_discoveries.items = <<>>
                   /\ IsAbsent(kd.summary.top_tags) =>
                          shown.body[1].top_tags.items = <<>>

\* the Learnings section is open on data that has no learnings list, or the
\* summary on data whose summary lacks a list
C12_Witness ==
    /\ ~managementMode
    /\ \/ activeSection = "learnings" /\ knowledgeData.learnings = JUndefined
       \/ /\ activeSection = "summary"
          /\ ~IsAbsent(knowledgeData.summary)
          /\ knowledgeData.summary.recent_discoveries = JUndefined

(***************************************************************************)
(* Claims about the key labels of the asset viewer, checked under Spec.    *)
(***************************************************************************)
IsLetterOrDigit(c) == c \in Range(LowerCase) \cup Range(UpperCase) \cup Range(Digits)

\* position i of the key starts a word: a maximal run of letters and digits
StartsWord(key, i) ==
    IsLetterOrDigit(key[i]) /\ (i = 1 \/ ~IsLetterOrDigit(key[i - 1]))

\* the label is the key with every underscore turned into a space, the
\* first character of every word in upper case and nothing else changed
Humanized(key, lbl) ==
    /\ Len(lbl) = Len(key)
    /\ \A i \in 1..Len(key) :
           /\ key[i] = "_" => lbl[i] = " "
           /\ (key[i] # "_" /\ StartsWord(key, i)) =>
                  /\ lbl[i] \notin Range(LowerCase)
                  /\ key[i] \in Range(LowerCase) =>
                         /\ lbl[i] \in Range(UpperCase)
                         /\ \E k \in 1..Len(UpperCase) :
                                LowerCase[k] = key[i] /\ UpperCase[k] = lbl[i]
                  /\ key[i] \notin Range(LowerCase) => lbl[i] = key[i]
           /\ (key[i] # "_" /\ ~StartsWord(key, i)) => lbl[i] = key[i]

\* the labels of a rendered tree are the humanized keys of the value it
\* was rendered from, at every depth
RECURSIVE LabelsHumanized(_, _)
LabelsHumanized(v, n) ==
    CASE n.node \in {"object", "content"} ->
            LET entries == ObjectEntries(v).entries
                shown == IF n.node = "object" THEN n.props ELSE n.fields
            IN  \A i \in 1..Len(shown) :
                    /\ Humanized(entries[i].key, shown[i].key)
                    /\ LabelsHumanized(entries[i].val, shown[i].child)
      [] n.node = "list" ->
            \A i \in 1..Len(n.items) : LabelsHumanized(v.items[i], n.items[i].child)
      [] OTHER -> TRUE

\* C13: every key label of the Visual view, of a top-level field and of a
\* nested mapping alike, is its key with each underscore replaced by a
\* space and the first character of each word (a run of letters and
\* digits) in upper case, every other character unchanged;
\* executive_summary is shown as Executive Summary.
C13_KeyLabelsHumanized ==
    LET shown == SmartAssetViewer(asset, activeView).content
    IN  /\ activeView = "visual" => LabelsHumanized(asset.asset_data, shown[1])
        /\ KeyLabel(KeyPool[2]) = ExecutiveSummaryLabel

\* whether the tree shows a mapping, below the top level, with an
\* underscore in one of its shown keys
RECURSIVE ShowsNestedLabel(_, _)
ShowsNestedLabel(v, n) ==
    CASE n.node = "object" ->
            \E i \in 1..Len(n.props) :
                \/ "_" \in Range(ObjectEntries(v).entries[i].key)
                \/ ShowsNestedLabel(ObjectEntries(v).entries[i].val, n.props[i].child)
      [] n.node = "list" ->
            \E i \in 1..Len(n.items) : ShowsNestedLabel(v.items[i], n.items[i].child)
      [] n.node = "content" ->
            \E i \in 1..Len(n.fields) :
                ShowsNestedLabel(ObjectEntries(v).entries[i].val, n.fields[i].child)
      [] OTHER -> FALSE

\* the Visual view shows a top-level field and a nested mapping whose keys
\* have underscores, and a key with a hyphen
C13_Witness ==
    /\ activeView = "visual"
    /\ SmartAssetViewer(asset, activeView).content[1].node = "content"
    /\ ShowsNestedLabel(asset.asset_data, SmartAssetViewer(asset, activeView).content[1])
    /\ \E i \in 1..Len(ObjectEntries(asset.asset_data).entries) :
           {"_"} \subseteq Range(ObjectEntries(asset.asset_data).entries[i].key)
    /\ \E i \in 1..Len(ObjectEntries(asset.asset_data).entries) :
           {"-"} \subseteq Range(ObjectEntries(asset.asset_data).entries[i].key)

(***************************************************************************)
(* The free-text labels: the asset name in the viewer's header, the        *)
(* personality traits of an agent and the type of an insight.              *)
(***************************************************************************)
MaxTextLen == 3     \* free texts have 0..MaxTextLen characters

\* Array.prototype.join(', ')
RECURSIVE JoinComma(_)
JoinComma(strs) ==
    IF Len(strs) = 0 THEN <<>>
    ELSE IF Len(strs) = 1 THEN strs[1]
    ELSE strs[1] \o <<",", " ">> \o JoinComma(Tail(strs))

\* a trait label that capitalizes its words as well
TraitLabel_Capitalizing(trait) ==
    CapitalizeWords(ReplaceAll(ReplaceAll(trait, "_", " "), "-", " "))

\* ProjectTeamSection.tsx line 70: trait.replace(/_/g, ' ').replace(/-/g, ' ')
TraitLabel(trait) == ReplaceAll(ReplaceAll(trait, "_", " "), "-", " ")

\* ProjectTeamSection.tsx lines 68-71; only a string has replace
formatPersonalityTraits(traits) ==
    IF Falsy(traits) \/ ~ArrayIsArray(traits) \/ Len(traits.items) = 0
    THEN Returned(Literal.non_specificati)
    ELSE IF \E i \in 1..Len(traits.items) : traits.items[i].kind # "string"
    THEN TypeError
    ELSE Returned(JoinComma([i \in 1..Len(traits.items) |->
                                TraitLabel(traits.items[i].str)]))

(***************************************************************************)
(* SpecLabels: one free text shown as an asset name, as a personality      *)
(* trait and as an insight type.                                           *)
(***************************************************************************)
TextAlphabet == {"a", "b", "_", "-"}

FreeTexts ==
    UNION {[1..n -> TextAlphabet] : n \in 0..MaxTextLen}
    \cup {Literal.success_pattern, LongType, KeyPool[2], KeyPool[4],
          <<"d", "e", "t", "a", "i", "l", "-", "o", "r", "i", "e", "n", "t", "e", "d">>}

InitLabels ==
    /\ freeText \in FreeTexts
    /\ humanized = NoValue
    /\ IdleRenderer /\ IdleViewer /\ IdlePanel /\ IdleCallbacks /\ IdleFormat
    /\ IdleKnowledge /\ IdleTeam /\ IdleTags

Humanize ==
    /\ humanized = NoValue
    /\ humanized' = [assetName |-> getAssetTypeInfo(freeText).title,
                     trait |-> formatPersonalityTraits(JArray(<<JString(freeText)>>)),
                     insightType |-> InsightTypeLabel(JString(freeText))]
    /\ UNCHANGED <<value, out, asset, supplied, activeView, activeSection,
                   managementMode, calls, dateString, confidence, label,
                   knowledgeData, agents, team, tag, style, freeText>>

SpecLabels == InitLabels /\ [][Humanize]_vars

(***************************************************************************)
(* Claims about the free-text labels, checked under SpecLabels.            *)
(***************************************************************************)
IsSeparator(c) == c = "_" \/ c = "-"

\* the label is the text with every underscore and hyphen turned into a
\* space and the first character of every word in upper case
FullyHumanized(text, lbl) ==
    /\ Len(lbl) = Len(text)
    /\ \A i \in 1..Len(text) :
           /\ IsSeparator(text[i]) => lbl[i] = " "
           /\ (~IsSeparator(text[i]) /\ StartsWord(text, i)) => lbl[i] = ToUpperCase(text[i])
           /\ (~IsSeparator(text[i]) /\ ~StartsWord(text, i)) => lbl[i] = text[i]

FirstUnderscore(text, i) == text[i] = "_" /\ \A j \in 1..(i - 1) : text[j] # "_"

MaxAgents == 3      \* a team has 0..MaxAgents agents

Skill(name, level) == [kind |-> "object", name |-> name, level |-> level]

Agent(id, role, seniority, status, health, traits, hard, soft) ==
    [kind |-> "object", id |-> id, role |-> role, seniority |-> seniority,
     status |-> status, health |-> health, personality_traits |-> traits,
     hard_skills |-> hard, soft_skills |-> soft]

\* the properties every object inherits from Object.prototype
ObjectPrototype ==
    {"constructor", "toString", "toLocaleString", "valueOf", "hasOwnProperty",
     "isPrototypeOf", "propertyIsEnumerable", "__proto__", "__defineGetter__",
     "__defineSetter__", "__lookupGetter__", "__lookupSetter__"}

HasOwn(groups, role) == \E i \in 1..Len(groups) : groups[i].key = role
OwnIndex(groups, role) == CHOOSE i \in 1..Len(groups) : groups[i].key = role

\* roleGroups[role] for a role roleGroups has no own property of: the
\* object literal {} inherits from Object.prototype
Inherits(groups, role) == ~HasOwn(groups, role) /\ role \in ObjectPrototype

\* ProjectTeamSection.tsx lines 57-62: the body of the forEach callback.
\* An inherited property is truthy, so no array is created for it, and it
\* has no push method
GroupStep(groups, agent) ==
    LET role == agent.role
    IN  IF Inherits(groups, role) THEN [threw |-> TRUE, groups |-> groups]
        ELSE LET created == IF HasOwn(groups, role) THEN groups
                            ELSE Append(groups, [key |-> role, val |-> <<>>])
             IN  [threw |-> FALSE,
                  groups |-> [created EXCEPT
                                 ![OwnIndex(created, role)].val = Append(@, agent)]]

\* ProjectTeamSection.tsx lines 53-65: agentsByRole, its entries in the
\* order Object.entries gives them (roles are not array indices)
RECURSIVE GroupFrom(_, _, _)
GroupFrom(list, i, groups) ==
    IF i > Len(list) THEN [threw |-> FALSE, groups |-> groups]
    ELSE LET step == GroupStep(groups, list[i])
         IN  IF step.threw THEN step ELSE GroupFrom(list, i + 1, step.groups)

agentsByRole(list) == GroupFrom(list, 1, <<>>)

\* ProjectTeamSection.tsx lines 74-99
renderSkills(skills) ==
    IF Falsy(skills) \/ ~ArrayIsArray(skills) \/ Len(skills.items) = 0
    THEN <<>>
    ELSE LET shown == Slice(skills.items, 0, 3)
             levels == [i \in 1..Len(shown) |-> SkillLevelStyle(shown[i].level)]
         IN  IF \E i \in 1..Len(shown) : levels[i].threw THEN <<Thrown>>
             ELSE <<[node |-> "skills",
                     shown |-> [i \in 1..Len(shown) |->
                                   [name |-> shown[i].name, level |-> shown[i].level,
                                    cls |-> levels[i].val]],
                     more |-> IF Len(skills.items) > 3
                              THEN <<Len(skills.items) - 3>> ELSE <<>>]>>

\* ProjectTeamSection.tsx lines 188-199: x && x.length > 0 && renderSkills(x)
SkillsBlock(skills) ==
    IF Falsy(skills) \/ Len(skills.items) = 0 THEN <<>> ELSE renderSkills(skills)

\* ProjectTeamSection.tsx lines 172-176
TraitsBlock(traits) ==
    IF Falsy(traits) \/ Len(traits.items) = 0 THEN <<>>
    ELSE LET text == formatPersonalityTraits(traits)
         IN  IF text.threw THEN <<Thrown>> ELSE <<text.val>>

\* ProjectTeamSection.tsx lines 142-211: the card of one agent, by its
\* styled parts
AgentCard(agent) ==
    LET traits == TraitsBlock(agent.personality_traits)
        hard == SkillsBlock(agent.hard_skills)
        soft == SkillsBlock(agent.soft_skills)
    IN  IF traits = <<Thrown>> \/ hard = <<Thrown>> \/ soft = <<Thrown>> THEN Thrown
        ELSE [node |-> "agent", id |-> agent.id,
              seniority |-> getSeniorityColor(agent.seniority).val,
              traits |-> traits, hard_skills |-> hard, soft_skills |-> soft,
              status |-> getStatusColor(agent.status).val,
              health |-> getHealthColor(agent.health).val,
              healthText |-> HealthStatus(agent.health)]

\* ProjectTeamSection.tsx lines 100-232
ProjectTeamSection(list) ==
    IF Len(list) = 0 THEN [node |-> "empty", count |-> 0]
    ELSE LET grouped == agentsByRole(list)
             groups == grouped.groups
             cards == [g \in 1..Len(groups) |->
                          [i \in 1..Len(groups[g].val) |-> AgentCard(groups[g].val[i])]]
         IN  IF grouped.threw THEN Thrown
             ELSE IF \E g \in 1..Len(groups) : \E i \in 1..Len(cards[g]) :
                         cards[g][i] = Thrown
             THEN Thrown
             ELSE [node |-> "team", count |-> Len(list),
                   groups |-> [g \in 1..Len(groups) |->
                                  [heading |-> groups[g].key, cards |-> cards[g]]]]

\* a render that reverses the agents prop in place
RenderTeam_SortsProp ==
    /\ agents # NoValue
    /\ team = NotRendered
    /\ team' = ProjectTeamSection(agents.items)
    /\ agents' = JArray([i \in 1..Len(agents.items) |->
                             agents.items[Len(agents.items) + 1 - i]])
    /\ UNCHANGED <<value, out, asset, supplied, activeView, activeSection,
                   managementMode, calls, dateString, confidence, label,
                   knowledgeData, tag, style, freeText, humanized>>

\* one render of the team section
RenderTeam ==
    /\ agents # NoValue
    /\ team = NotRendered
    /\ team' = ProjectTeamSection(agents.items)
    /\ UNCHANGED <<value, out, asset, supplied, activeView, activeSection,
                   managementMode, calls, dateString, confidence, label,
                   knowledgeData, agents, tag, style, freeText, humanized>>

(***************************************************************************)
(* The props the team section is mounted with.                             *)
(***************************************************************************)
SeniorityPool == <<JString(Literal.junior), JString(Literal.expert), JUndefined>>
StatusPool == <<JString(Literal.active), JString(Literal.paused), JString(Literal.unknown)>>
HealthPool == <<JObject(<<[key |-> Literal.status, val |-> JString(Literal.healthy)]>>), JUndefined,
                JObject(<<>>)>>
TraitsPool == <<JArray(<<JString(LongType), JString(Literal.junior)>>), JUndefined, JArray(<<>>)>>
SkillsPool ==
    <<JArray(<<Skill(Note(1), JString(Capitalized(Literal.expert))), Skill(Note(2), JUndefined),
               Skill(Note(3), JString(Literal.beginner)), Skill(Note(4), JString(Literal.unknown))>>),
      JNull,
      JArray(<<Skill(Note(5), JString(<<>>))>>)>>

\* the i-th agent of a team, with the given role
AgentOf(i, role) ==
    LET k == ((i - 1) % 3) + 1
    IN  Agent(i, role, SeniorityPool[k], StatusPool[k], HealthPool[k], TraitsPool[k],
              SkillsPool[k], SkillsPool[(k % 3) + 1])

PlainRoles == {"Developer", "Project Manager", "dev_ops"}
InheritedRoles == {"constructor", "toString"}

TeamOf(roles) == JArray([i \in 1..Len(roles) |-> AgentOf(i, roles[i])])

\* the teams the section is mounted with beside the viewer and the panel
MountedTeams ==
    {TeamOf(<<>>), TeamOf(<<"dev_ops">>),
     TeamOf(<<"Developer", "Project Manager", "Developer">>)}

Teams(roleSet) == {TeamOf(roles) : roles \in UNION {[1..n -> roleSet] : n \in 0..MaxAgents}}

(***************************************************************************)
(* Claims about the props, checked under Spec.                             *)
(***************************************************************************)
\* C15: no render, selection, toggle or click changes a prop: asset (and
\* its asset_data), agents and knowledgeData, with every list nested in
\* them, stay equal to what the caller passed.
C15_PropsUntouched ==
    [][/\ asset' = asset
       /\ agents' = agents
       /\ knowledgeData' = knowledgeData
       /\ supplied' = supplied]_vars

\* the team has been grouped and rendered, and the viewer and the panel
\* have been clicked
C15_Witness ==
    /\ team # NotRendered
    /\ team.node = "team"
    /\ Len(team.groups) < Len(agents.items)
    /\ calls # <<>>
    /\ activeView = "data"
    /\ managementMode

(***************************************************************************)
(* The buttons of an insight card.                                         *)
(***************************************************************************)
\* the cards the panel shows: those of the active section, outside
\* management mode
ShownCards ==
    LET body == PanelBody(knowledgeData, activeSection, managementMode)
    IN  IF Len(body) = 1 /\ body[1].node = "section" THEN body[1].cards ELSE <<>>

\* the items the shown cards were rendered from
ShownInsights ==
    IF activeSection \in {"insights", "practices", "learnings"}
    THEN OrEmptyList(knowledgeData[SectionItems(activeSection)]).items
    ELSE <<>>

InsightAction(action, item) == Call("onInsightAction", [action |-> action, item |-> item])

\* a "Find Similar" button wired to the 'apply' action
ClickFindSimilar_Applies(i) ==
    /\ i \in 1..Len(ShownCards)
    /\ ShownCards[i].actions # <<>>
    /\ Len(calls) < MaxCalls
    /\ calls' = Append(calls, InsightAction("apply", ShownInsights[i]))
    /\ UNCHANGED <<value, out, asset, supplied, activeView, activeSection,
                   managementMode, dateString, confidence, label,
                   knowledgeData, agents, team, tag, style, freeText, humanized>>

\* part_000 line 446: onClick={() => onInsightAction('apply', item)}; the
\* button is rendered when onInsightAction is supplied
ClickApplyLearning(i) ==
    /\ i \in 1..Len(ShownCards)
    /\ ShownCards[i].actions # <<>>
    /\ Len(calls) < MaxCalls
    /\ calls' = Append(calls, InsightAction("apply", ShownInsights[i]))
    /\ UNCHANGED <<value, out, asset, supplied, activeView, activeSection,
                   managementMode, dateString, confidence, label,
                   knowledgeData, agents, team, tag, style, freeText, humanized>>

\* part_000 line 452: onClick={() => onInsightAction('similar', item)}
ClickFindSimilar(i) ==
    /\ i \in 1..Len(ShownCards)
    /\ ShownCards[i].actions # <<>>
    /\ Len(calls) < MaxCalls
    /\ calls' = Append(calls, InsightAction("similar", ShownInsights[i]))
    /\ UNCHANGED <<value, out, asset, supplied, activeView, activeSection,
                   managementMode, dateString, confidence, label,
                   knowledgeData, agents, team, tag, style, freeText, humanized>>

\* the cards of one section are at most this many
CardSlots == 1..2

(***************************************************************************)
(* Claims about the callbacks, checked under Spec.                         *)
(***************************************************************************)
\* the call a step has made, if it made one
Invoked == calls'[Len(calls')]

\* a step invokes at most one callback
OncePerClick == calls' = calls \/ calls' = Append(calls, Invoked)

\* the callback a step invoked was supplied, was invoked by its button and
\* with the documented arguments
MatchingClick ==
    calls' # calls =>
        CASE Invoked.fn = "onDownload" ->
                ClickDownload /\ "onDownload" \in supplied /\ Invoked.arg = asset
          [] Invoked.fn = "onRefine" ->
                ClickRefine /\ "onRefine" \in supplied /\ Invoked.arg = asset
          [] Invoked.fn = "onInsightAction" ->
                /\ "onInsightAction" \in supplied
                /\ \E i \in 1..Len(ShownInsights) :
                       \/ /\ ClickApplyLearning(i)
                          /\ Invoked.arg = [action |-> "apply", item |-> ShownInsights[i]]
                       \/ /\ ClickFindSimilar(i)
                          /\ Invoked.arg = [action |-> "similar", item |-> ShownInsights[i]]
          [] Invoked.fn = "onRefreshKnowledge" ->
                ClickRefresh /\ "onRefreshKnowledge" \in supplied
          [] Invoked.fn = "onClose" -> ClickClose

\* a click on a button invokes the button's callback, and a click on a
\* button whose callback is not supplied changes nothing
ClickInvokes ==
    /\ ClickDownload =>
           IF "onDownload" \in supplied
           THEN calls' = Append(calls, Call("onDownload", asset))
           ELSE UNCHANGED vars
    /\ ClickRefine =>
           IF "onRefine" \in supplied
           THEN calls' = Append(calls, Call("onRefine", asset))
           ELSE UNCHANGED vars
    /\ \A i \in 1..Len(ShownInsights) :
           /\ ClickApplyLearning(i) =>
                  calls' = Append(calls, InsightAction("apply", ShownInsights[i]))
           /\ ClickFindSimilar(i) =>
                  calls' = Append(calls, InsightAction("similar", ShownInsights[i]))

\* the buttons of a card are rendered exactly when onInsightAction is
\* supplied
ButtonsRendered ==
    \A i \in 1..Len(ShownCards) :
        ShownCards[i].actions # <<>> <=> "onInsightAction" \in supplied

\* C16: a callback is invoked only by a click on its button, once per
\* click and with the documented arguments: Apply Learning calls
\* onInsightAction('apply', item) and Find Similar onInsightAction('similar',
\* item) with the item of the card, Download Asset calls onDownload(asset)
\* and Request Changes onRefine(asset). A click on a button whose callback
\* is not supplied changes nothing, the card buttons are not rendered
\* without onInsightAction, and no click changes the active section, the
\* view or management mode.
C16_CallbacksMatchClicks ==
    /\ []ButtonsRendered
    /\ [][/\ OncePerClick
          /\ MatchingClick
          /\ ClickInvokes
          /\ calls' # calls => UNCHANGED <<activeSection, activeView, managementMode>>]_vars

\* Find Similar has been clicked on the second card of a section other
\* than the default one
C16_Witness ==
    /\ calls # <<>>
    /\ activeSection # "insights"
    /\ Len(ShownInsights) >= 2
    /\ calls[Len(calls)].fn = "onInsightAction"
    /\ calls[Len(calls)] = InsightAction("similar", ShownInsights[2])

(***************************************************************************)
(* Claims about the recursion of SmartValueRenderer, checked under         *)
(* SpecRenderLive: SpecRender with the render, once React has mounted the  *)
(* component, taking place.                                                *)
(***************************************************************************)
SpecRenderLive == SpecRender /\ WF_vars(NextRender)

RECURSIVE Sum(_)
Sum(seq) == IF Len(seq) = 0 THEN 0 ELSE Head(seq) + Sum(Tail(seq))

Max(a, b) == IF a > b THEN a ELSE b

RECURSIVE Highest(_)
Highest(seq) == IF Len(seq) = 0 THEN 0 ELSE Max(Head(seq), Highest(Tail(seq)))

\* the trees a tree has directly below it: one per recursive call
Children(n) ==
    CASE n.node = "list" -> [i \in 1..Len(n.items) |-> n.items[i].child]
      [] n.node = "object" -> [i \in 1..Len(n.props) |-> n.props[i].child]
      [] OTHER -> <<>>

\* the values a value holds directly, in order
Held(v) ==
    CASE v.kind = "array" -> v.items
      [] v.kind = "object" -> [i \in 1..Len(v.entries) |-> v.entries[i].val]
      [] OTHER -> <<>>

\* how many of them the claim lets the renderer descend into
CallCap(v) == IF v.kind = "array" THEN 5 ELSE 3

\* the calls of SmartValueRenderer that produced a tree, and its depth
RECURSIVE TreeCalls(_)
TreeCalls(n) ==
    1 + Sum([i \in 1..Len(Children(n)) |-> TreeCalls(Children(n)[i])])

RECURSIVE TreeDepth(_)
TreeDepth(n) ==
    1 + Highest([i \in 1..Len(Children(n)) |-> TreeDepth(Children(n)[i])])

\* the calls the claim allows for a value: one, and those for the first
\* five items or first three entries, and the depth they reach
RECURSIVE AllowedCalls(_)
AllowedCalls(v) ==
    1 + Sum([i \in 1..Min(Len(Held(v)), CallCap(v)) |-> AllowedCalls(Held(v)[i])])

RECURSIVE AllowedDepth(_)
AllowedDepth(v) ==
    1 + Highest([i \in 1..Min(Len(Held(v)), CallCap(v)) |-> AllowedDepth(Held(v)[i])])

\* at every level the tree has a child for each of the first five items or
\* three entries of the value, rendered from that item, and for no other
RECURSIVE DescendsIntoShown(_, _)
DescendsIntoShown(v, n) ==
    /\ Len(Children(n)) = Min(Len(Held(v)), CallCap(v))
    /\ \A i \in 1..Len(Children(n)) :
           /\ Children(n)[i] = SmartValueRenderer(Held(v)[i])
           /\ DescendsIntoShown(Held(v)[i], Children(n)[i])

\* C17: the render of every value ends; it makes one recursive call for
\* each of the first five items of a list and the first three entries of a
\* mapping, at every depth the value has, and none for a hidden item or
\* entry.
C17_RecursionBounded ==
    /\ <>Rendered
    /\ [](Rendered =>
              /\ DescendsIntoShown(value, out)
              /\ TreeCalls(out) = AllowedCalls(value)
              /\ TreeDepth(out) = AllowedDepth(value))

\* a value three levels deep has been rendered, with a list of more than
\* five items and a mapping of more than three entries below the top
C17_Witness ==
    /\ Rendered
    /\ TreeDepth(out) >= 3
    /\ \E i \in 1..Len(Held(value)) :
           Held(value)[i].kind = "array" /\ Len(Held(value)[i].items) > 5
    /\ \E i \in 1..Min(Len(Held(value)), CallCap(value)) :
           Held(value)[i].kind = "object" /\ Len(Held(value)[i].entries) > 3
    /\ TreeCalls(out) > 10

(***************************************************************************)
(* SpecTeam: one render of the team section on a list of agents.           *)
(***************************************************************************)
InitTeam ==
    /\ agents \in Teams(PlainRoles \cup InheritedRoles)
    /\ team = NotRendered
    /\ IdleRenderer /\ IdleViewer /\ IdlePanel /\ IdleCallbacks /\ IdleFormat
    /\ IdleKnowledge /\ IdleTags /\ IdleLabels

SpecTeam == InitTeam /\ [][RenderTeam]_vars

(***************************************************************************)
(* Claims about the grouping of agents, checked under SpecTeam.            *)
(***************************************************************************)
\* the ids of the agents with a role, in the order of the list
RECURSIVE IdsWithRole(_, _)
IdsWithRole(list, role) ==
    IF Len(list) = 0 THEN <<>>
    ELSE (IF Head(list).role = role THEN <<Head(list).id>> ELSE <<>>)
         \o IdsWithRole(Tail(list), role)

\* C18: whatever the role strings are, "constructor" and "toString"
\* included, grouping does not fail; the groups are headed by the distinct
\* roles, each group holds the agents of its role in the order of the
\* list, so that every agent is in exactly one group, and the group sizes
\* sum to the number of agents.
C18_GroupingPartitions ==
    (team # NotRendered /\ Len(agents.items) > 0) =>
        /\ team # Thrown
        /\ team.node = "team"
        /\ \A g, h \in 1..Len(team.groups) :
               team.groups[g].heading = team.groups[h].heading => g = h
        /\ {team.groups[g].heading : g \in 1..Len(team.groups)}
               = {agents.items[i].role : i \in 1..Len(agents.items)}
        /\ \A g \in 1..Len(team.groups) :
               [i \in 1..Len(team.groups[g].cards) |-> team.groups[g].cards[i].id]
                   = IdsWithRole(agents.items, team.groups[g].heading)
        /\ Sum([g \in 1..Len(team.groups) |-> Len(team.groups[g].cards)])
               = Len(agents.items)

(***************************************************************************)
(* Claims about the section state of the knowledge panel, checked under    *)
(* Spec.                                                                   *)
(***************************************************************************)
SelectableSections == {"insights", "practices", "learnings", "summary"}

\* outside management mode the panel renders the content of exactly one
\* section, the active one
OneSectionShown ==
    LET shown == KnowledgeInsightsArtifact(knowledgeData, activeSection, managementMode)
    IN  ~managementMode =>
            /\ Len(shown.body) = 1
            /\ Len(shown.panel.content) = 1
            /\ shown.panel.content[1].items = SectionItems(activeSection)
            /\ Cardinality({i \in 1..Len(shown.panel.tabs) : shown.panel.tabs[i].active}) = 1

\* C19: the active section is always one of insights, practices, learnings
\* and summary: 'manage' is declared and no step sets it, so outside
\* management mode the content of exactly one section is rendered; and no
\* step taken while management mode is on changes the active section.
C19_SectionNeverManage ==
    /\ [](activeSection \in SelectableSections /\ OneSectionShown)
    /\ "manage" \in SectionType
    /\ [][activeSection' # "manage"]_vars
    /\ [][managementMode => activeSection' = activeSection]_vars

\* management mode is on over the last section, after a click
C19_Witness ==
    /\ managementMode
    /\ activeSection = "summary"
    /\ calls # <<>>

(***************************************************************************)
(* Claims about the confidence badge of an insight card, checked under     *)
(* Spec.                                                                   *)
(***************************************************************************)
ConfidenceSuffix == <<"%", " ", "c", "o", "n", "f", "i", "d", "e", "n", "c", "e">>

\* C20: every shown card whose item has a confidence, the confidence 0
\* included, carries a badge with the tier of getConfidenceColor and the
\* text round(confidence * 100) "% confidence"; a card whose item has no
\* confidence carries none.
C20_BadgeForEveryConfidence ==
    \A i \in 1..Len(ShownCards) :
        LET conf == ShownInsights[i].confidence
            badge == ShownCards[i].badge
        IN  IF IsAbsent(conf) THEN badge = <<>>
            ELSE /\ Len(badge) = 1
                 /\ badge[1].node = "badge"
                 /\ badge[1].cls = getConfidenceColor(conf)
                 /\ badge[1].text = NatToString(RoundPercent(conf)) \o ConfidenceSuffix

(***************************************************************************)
(* C21: the Visual view caps nothing at the top level.                     *)
(***************************************************************************)
\* the pane the viewer shows for the mounted asset in the current view
ShownPane == SmartAssetViewer(asset, activeView).content[1]

\* the kinds of asset_data that are absent or not an object
NotAnObject == {"null", "undefined", "string", "number", "boolean"}

\* a rendered field value that is a mapping of more than three entries shows
\* three of them and the marker for the rest
CappedBelow(val, child) ==
    (val.kind = "object" /\ Len(val.entries) > 3)
        => /\ child.node = "object"
           /\ Len(child.props) = 3
           /\ child.more = <<Len(val.entries) - 3>>

\* C21: in the Visual view, asset_data that is a keyed mapping is rendered
\* as one labeled field per top-level entry, in enumeration order, with no
\* three-entry cap and no "more properties" marker, while the renderer's
\* caps still apply inside each field; asset_data that is null, undefined,
\* a string, a number or a boolean is rendered as the "No data available"
\* placeholder.
C21_TopLevelUncapped ==
    (asset # NoValue /\ activeView = "visual") =>
        LET data == asset.asset_data
            shown == SmartAssetViewer(asset, activeView).content
        IN  /\ Len(shown) = 1
            /\ data.kind = "object" =>
                   /\ ShownPane.node = "content"
                   /\ DOMAIN ShownPane = {"node", "fields"}
                   /\ Len(ShownPane.fields) = Len(data.entries)
                   /\ \A i \in 1..Len(data.entries) :
                          /\ Humanized(data.entries[i].key, ShownPane.fields[i].key)
                          /\ ShownPane.fields[i].child
                                = SmartValueRenderer(data.entries[i].val)
                          /\ CappedBelow(data.entries[i].val, ShownPane.fields[i].child)
            /\ data.kind \in NotAnObject =>
                   ShownPane = Marker("No data available for this asset")

\* the Visual view of a mapping of more than three entries, one of which is
\* itself a mapping of more than three entries
C21_Witness ==
    /\ asset # NoValue
    /\ activeView = "visual"
    /\ asset.asset_data.kind = "object"
    /\ Len(asset.asset_data.entries) > 3
    /\ Len(ShownPane.fields) > 3
    /\ \E i \in 1..Len(ShownPane.fields) :
           /\ ShownPane.fields[i].child.node = "object"
           /\ ShownPane.fields[i].child.more # <<>>

\* the Visual view of asset_data that is the boolean false
C21_PlaceholderShown ==
    /\ asset # NoValue
    /\ activeView = "visual"
    /\ asset.asset_data = JBoolean(FALSE)
    /\ ShownPane = Marker("No data available for this asset")

(***************************************************************************)
(* Spec: the asset viewer, the knowledge panel and the team section, each  *)
(* mounted with its props, and the user clicking.                          *)
(***************************************************************************)
ViewerCallbacks == {"onDownload", "onRefine"}
PanelCallbacks == {"onRefreshKnowledge", "onInsightAction"}

DefaultAsset == [asset_name |-> KeyPool[3], asset_data |-> ScenarioData]

\* the props of the three components; one component's props vary at a time
Mounts ==
    {[asset |-> a, knowledgeData |-> EmptyKnowledge, supplied |-> s,
      agents |-> NoValue] :
        a \in Assets, s \in SUBSET ViewerCallbacks}
    \cup {[asset |-> DefaultAsset, knowledgeData |-> kd, supplied |-> s,
            agents |-> NoValue] :
              kd \in KnowledgeSet, s \in SUBSET PanelCallbacks}
    \cup {[asset |-> DefaultAsset, knowledgeData |-> EmptyKnowledge, supplied |-> {},
            agents |-> t] : t \in MountedTeams}

Init ==
    /\ \E m \in Mounts :
           /\ asset = m.asset
           /\ knowledgeData = m.knowledgeData
           /\ supplied = m.supplied
           /\ agents = m.agents
    /\ activeView = "visual"
    /\ activeSection = "insights"
    /\ managementMode = FALSE
    /\ calls = <<>>
    /\ team = NotRendered
    /\ IdleRenderer /\ IdleFormat /\ IdleTags /\ IdleLabels

Next ==
    \/ \E v \in Views : SelectView(v)
    \/ ClickDownload
    \/ ClickRefine
    \/ ClickClose
    \/ \E s \in SectionType : SelectSection(s)
    \/ ToggleManagement
    \/ ClickRefresh
    \/ \E i \in CardSlots : ClickApplyLearning(i)
    \/ \E i \in CardSlots : ClickFindSimilar(i)
    \/ RenderTeam

Spec == Init /\ [][Next]_vars

====
